---- MODULE Spec2Model ----
(***************************************************************************)
(* Verification model of the fault classification engine and the record    *)
(* statistics of src/src/VehicleFaults.py, and of the taxonomy loading of  *)
(* src/src/QueryPreProcessor.py; of the chat entry points; of the entity   *)
(* and record processor of src/src/domain/vehicle_leasing; of the test     *)
(* runner (src/src/testrunner.py) and of the log buffer                    *)
(* (src/src/LogManager.py).                                                *)
(*                                                                         *)
(* Strings are sequences of one-character strings so that Python's         *)
(* substring test ("kw in text") and lower() are computed, not assumed.    *)
(* Scores are exact rationals [n, d] (d > 0, lowest terms).                *)
(***************************************************************************)
EXTENDS Integers, Sequences, FiniteSets, TLC

VARIABLES
    \* ---- one call of VehicleFault._categorize_faults ----
    fault_categories,   \* self.fault_categories: [schema, cats]
    fault_description,  \* the argument: a string, or NoneValue
    pc,                 \* position in _categorize_faults
    idx,                \* next category of the for loop (load order)
    best_match,         \* local best_match
    best_subcategory,   \* local best_subcategory
    highest_score,      \* local highest_score
    match_density,      \* local match_density
    scored,             \* number of categories the loop has scored
    result,             \* what the call returned (or that it raised)
    first_result,       \* what the earlier call on the same text returned
    \* ---- a VehicleFault object and a QueryPreProcessor ----
    cfg,                \* state of config/fault_categories.yaml
    data,               \* rows handed to VehicleFault(data)
    vf,                 \* the VehicleFault object: [state, df]
    qpp,                \* the QueryPreProcessor object: [state, cats]
    report,             \* result of the last aggregation or handler call
    previous,           \* result of the earlier, identical aggregation call
    open_date,          \* the 'Open Date' column of the records: [dtype, values]
    \* ---- the chat entry points (PandasChat, main.chat_query) ----
    session,            \* what the caller holds: no data, or the records
    query,              \* the query text
    fallback,           \* how SmartDataframe.chat behaves for this call
    chat_pc,            \* position in the chat entry point
    attempts,           \* number of calls of SmartDataframe.chat so far
    response,           \* what the entry point returned
    \* ---- a VehicleFault entity and KardexProcessor (domain/vehicle_leasing) ----
    fault,              \* fault.attributes: attribute name -> value
    transformations,    \* format_config['transformations'] of the processor
    sheet,              \* the sheet read by process: [name, columns, rows]
    outcome,            \* what the call on the entity or the processor did
    \* ---- TestRunner.run_tests (testrunner.py, config/TestConfig.py) ----
    test_execution,     \* the test_execution section: sequence, dependencies, settings
    executed_tests,     \* self.executed_tests
    failed_tests,       \* self.failed_tests
    runner_pc,          \* position in run_tests
    position,           \* index in the sequence of the test of the for loop
    attempt,            \* attempts of _run_single_test on the current test so far
    started,            \* the tests started so far, in order, with their attempts
    run_result,         \* what validate_test_dependencies and run_tests returned
    \* ---- LogManager (LogManager.py) ----
    max_logs,           \* self.max_logs
    logs,               \* self.logs, the circular buffer
    log_id,             \* self.log_id
    log_lock,           \* holder of self.log_lock, 0 when free
    thread_pc,          \* position of every thread in log()
    logged,             \* every entry appended so far, in order
    got                 \* what the last get_logs call was asked and returned

classifierVars == <<fault_categories, fault_description, pc, idx, best_match,
                    best_subcategory, highest_score, match_density, scored, result,
                    first_result>>
chatVars == <<session, query, fallback, chat_pc, attempts, response>>
storeVars == <<cfg, data, vf, qpp, report, previous, open_date,
               session, query, fallback, chat_pc, attempts, response>>
toolVars == <<fault, transformations, sheet, outcome,
              test_execution, executed_tests, failed_tests, runner_pc, position,
              attempt, started, run_result,
              max_logs, logs, log_id, log_lock, thread_pc, logged, got>>
vars == <<fault_categories, fault_description, pc, idx, best_match,
          best_subcategory, highest_score, match_density, scored, result,
          first_result, cfg, data, vf, qpp, report, previous, open_date,
          session, query, fallback, chat_pc, attempts, response,
          fault, transformations, sheet, outcome,
          test_execution, executed_tests, failed_tests, runner_pc, position,
          attempt, started, run_result,
          max_logs, logs, log_id, log_lock, thread_pc, logged, got>>

(***************************************************************************)
(* Bounds of the model.                                                    *)
(***************************************************************************)
MaxCats == 2        \* categories in a taxonomy
MaxRecords == 3     \* rows of a record collection
MaxTests == 2       \* tests in the sequence of a test run
MaxRetries == 1     \* retry_count of a test run
MaxThreads == 2     \* threads calling the log manager
MaxLogCalls == 4    \* calls of log() in a run

(***************************************************************************)
(* Strings.                                                                *)
(***************************************************************************)
NoneValue == <<"None">>     \* Python None (no string has a 4-letter character)
Uncategorized == "Uncategorized"
NoSub == "None"             \* sub_category None
NaN == "NaN"                \* pandas missing value
EmptyStr == ""              \* '' (sub_cat None is stored as '' in the frame)

Min(a, b) == IF a <= b THEN a ELSE b
Max(a, b) == IF a >= b THEN a ELSE b

\* str.lower() on one character
LowerChar(c) ==
    CASE c = "A" -> "a" [] c = "B" -> "b" [] c = "C" -> "c" [] c = "D" -> "d"
      [] c = "E" -> "e" [] c = "F" -> "f" [] c = "R" -> "r" [] c = "S" -> "s"
      [] c = "T" -> "t" [] c = "U" -> "u" [] c = "W" -> "w" [] OTHER -> c

\* str.lower()
Lower(s) == [i \in 1..Len(s) |-> LowerChar(s[i])]

\* Python's "kw in text" for strings
Contains(text, kw) ==
    \E start \in 0..(Len(text) - Len(kw)) :
        \A j \in 1..Len(kw) : text[start + j] = kw[j]

(***************************************************************************)
(* Exact rationals.                                                        *)
(***************************************************************************)
RECURSIVE GCD(_, _)
GCD(a, b) == IF b = 0 THEN a ELSE GCD(b, a % b)

Rat(n, d) == LET g == GCD(n, d) IN [n |-> n \div g, d |-> d \div g]
Zero == [n |-> 0, d |-> 1]
One == [n |-> 1, d |-> 1]
RatLess(x, y) == x.n * y.d < y.n * x.d
RatLeq(x, y) == x.n * y.d <= y.n * x.d
RatAdd(x, y) == Rat(x.n * y.d + y.n * x.d, x.d * y.d)
RatScale(x, num, den) == Rat(x.n * num, x.d * den)
RatMin(x, y) == IF RatLeq(x, y) THEN x ELSE y

(***************************************************************************)
(* Taxonomies: an ordered mapping category -> details.  A category is      *)
(* [keywords, subcategories, malformed]; subcategories is the ordered      *)
(* mapping sub -> keyword list.  malformed stands for details that is no   *)
(* mapping (None, a list): "'keywords' in details" or details.get raises.  *)
(***************************************************************************)
CatNames == <<"Engine", "Brakes", "Tyres", "Body">>
SubNames == <<"first", "second", "third">>

MainKeywordLists ==
    {<< >>, << <<"a">> >>, << <<"A", "b">> >>, << <<"a">>, <<"a", "b">> >>}
SubKeywordLists == {<< <<"a">> >>, << <<"a", "b">> >>}
SubLists == {<< >>} \cup {<<k>> : k \in SubKeywordLists}
                    \cup {<<k1, k2>> : k1 \in SubKeywordLists, k2 \in SubKeywordLists}

MalformedCategory == [keywords |-> << >>, subcategories |-> << >>, malformed |-> TRUE]
Categories ==
    {[keywords |-> k, subcategories |-> s, malformed |-> FALSE] :
        k \in MainKeywordLists, s \in SubLists} \cup {MalformedCategory}

RECURSIVE SeqsUpTo(_, _)
SeqsUpTo(S, n) ==
    IF n = 0 THEN {<< >>}
    ELSE LET shorter == SeqsUpTo(S, n - 1)
         IN shorter \cup {Append(q, x) : q \in {r \in shorter : Len(r) = n - 1}, x \in S}

Taxonomies == SeqsUpTo(Categories, MaxCats)

Texts == {<< >>, <<"a">>, <<"b">>, <<"a", "b">>, <<"b", "a">>, <<"A", "b">>}

(***************************************************************************)
(* VehicleFault._categorize_faults: the scoring of one category.           *)
(***************************************************************************)
\* "for keyword in keywords: if keyword.lower() in fault_description"
KeywordHits(keywords, text) ==
    Cardinality({i \in 1..Len(keywords) : Contains(text, Lower(keywords[i]))})

\* mutant: "if current_sub_score >= sub_score", a tie displaces the earlier subcategory
SubImprovesOrTies(current_sub_score, sub_score) == current_sub_score >= sub_score

\* "if current_sub_score > sub_score": a later subcategory needs strictly more hits
SubImproves(current_sub_score, sub_score) == current_sub_score > sub_score

\* the loop over details['subcategories'], from subcategory i on;
\* acc = [best_sub, sub_score, sub_keyword_matches]
RECURSIVE BestSubFrom(_, _, _, _)
BestSubFrom(subcategories, text, i, acc) ==
    IF i > Len(subcategories) THEN acc
    ELSE LET current_sub_score == KeywordHits(subcategories[i], text)
             next == IF SubImproves(current_sub_score, acc.sub_score)
                     THEN [best_sub |-> SubNames[i],
                           sub_score |-> current_sub_score,
                           sub_keyword_matches |-> current_sub_score]
                     ELSE acc
         IN BestSubFrom(subcategories, text, i + 1, next)

BestSub(subcategories, text) ==
    BestSubFrom(subcategories, text, 1,
                [best_sub |-> NoSub, sub_score |-> 0, sub_keyword_matches |-> 0])

RECURSIVE SumLen(_, _)
SumLen(lists, i) == IF i > Len(lists) THEN 0 ELSE Len(lists[i]) + SumLen(lists, i + 1)

\* len(keywords) + the lengths of all subcategory keyword lists
TotalKeywords(details) == Len(details.keywords) + SumLen(details.subcategories, 1)

\* (keyword_matches + sub_keyword_matches) / max(1, total_keywords)
MatchDensity(keyword_matches, sub_keyword_matches, total_keywords) ==
    Rat(keyword_matches + sub_keyword_matches, Max(1, total_keywords))

\* score + (sub_score * 0.5) + (current_match_density * 2)
TotalScore(score, sub_score, current_match_density) ==
    RatAdd(RatAdd(Rat(score, 1), Rat(sub_score, 2)), RatScale(current_match_density, 2, 1))

\* one pass of the body of the for loop over the categories, up to total_score
ScoreCategory(details, text) ==
    LET score == KeywordHits(details.keywords, text)
        sub == BestSub(details.subcategories, text)
        density == MatchDensity(score, sub.sub_keyword_matches, TotalKeywords(details))
    IN [total_score |-> TotalScore(score, sub.sub_score, density),
        best_sub |-> sub.best_sub,
        current_match_density |-> density]

\* mutant: "if total_score >= highest_score", a tie displaces the earlier category
ImprovesOrTies(total_score, highest) == RatLeq(highest, total_score)

\* "if total_score > highest_score"
Improves(total_score, highest) == RatLess(highest, total_score)

\* mutant: highest_score lives on the object and survives the call
InitialLocalsKeepScore ==
    [best_match |-> NoSub, best_subcategory |-> NoSub,
     highest_score |-> highest_score, match_density |-> Zero]

\* the locals before the loop
InitialLocals ==
    [best_match |-> NoSub, best_subcategory |-> NoSub,
     highest_score |-> Zero, match_density |-> Zero]

\* mutant: the first category with a positive score is kept, later ones ignored
LoopStepKeepsFirst(locals, i, details, text) ==
    LET s == ScoreCategory(details, text)
    IN IF locals.best_match = NoSub /\ RatLess(Zero, s.total_score)
       THEN [best_match |-> CatNames[i], best_subcategory |-> s.best_sub,
             highest_score |-> s.total_score, match_density |-> s.current_match_density]
       ELSE locals

\* mutant: match_density is assigned on every pass, outside the branch
LoopStepDensityOfLast(locals, i, details, text) ==
    LET s == ScoreCategory(details, text)
    IN IF Improves(s.total_score, locals.highest_score)
       THEN [best_match |-> CatNames[i], best_subcategory |-> s.best_sub,
             highest_score |-> s.total_score, match_density |-> s.current_match_density]
       ELSE [locals EXCEPT !.match_density = s.current_match_density]

\* the update of the locals at the end of one pass
LoopStep(locals, i, details, text) ==
    LET s == ScoreCategory(details, text)
    IN IF Improves(s.total_score, locals.highest_score)
       THEN [best_match |-> CatNames[i], best_subcategory |-> s.best_sub,
             highest_score |-> s.total_score, match_density |-> s.current_match_density]
       ELSE locals

\* mutant: the confidence without its cap at 1.0
ConfidenceUncapped(highest, density) ==
    RatAdd(RatScale(highest, 1, 4), RatScale(density, 1, 2))

\* min((highest_score / 4) + (match_density * 0.5), 1.0)
Confidence(highest, density) ==
    RatMin(RatAdd(RatScale(highest, 1, 4), RatScale(density, 1, 2)), One)

\* return "Uncategorized", None, 0
UncategorizedResult ==
    [status |-> "returned", main |-> Uncategorized, sub |-> NoSub, confidence |-> Zero]

RaisedResult ==
    [status |-> "raised", main |-> Uncategorized, sub |-> NoSub, confidence |-> Zero]

PendingResult ==
    [status |-> "pending", main |-> Uncategorized, sub |-> NoSub, confidence |-> Zero]

\* mutant: the handler lets the exception out
OnScoringErrorReraise == RaisedResult

\* "except Exception as e: ... return "Uncategorized", None, 0"
OnScoringError == UncategorizedResult

\* mutant: only None is rejected, the empty string is scored
IsNoneInput(description) == description = NoneValue

\* "if not fault_description or not isinstance(fault_description, str)"
IsEmptyInput(description) == description = NoneValue \/ description = << >>

\* the statements after the loop
ReturnOf(locals) ==
    IF locals.best_match = NoSub THEN UncategorizedResult
    ELSE [status |-> "returned", main |-> locals.best_match,
          sub |-> locals.best_subcategory,
          confidence |-> Confidence(locals.highest_score, locals.match_density)]

\* whether evaluating the loop over fc raises: the mapping has no
\* 'fault_categories' key, or a category cannot be scored
ScoringRaises(fc) ==
    \/ ~fc.schema
    \/ \E i \in 1..Len(fc.cats) : fc.cats[i].malformed

RECURSIVE LoopFrom(_, _, _, _)
LoopFrom(cats, text, i, locals) ==
    IF i > Len(cats) THEN locals
    ELSE LoopFrom(cats, text, i + 1, LoopStep(locals, i, cats[i], text))

\* the whole of _categorize_faults as a function of (taxonomy, text)
CategorizeFaults(fc, description) ==
    IF IsEmptyInput(description) THEN UncategorizedResult
    ELSE IF ScoringRaises(fc) THEN OnScoringError
    ELSE ReturnOf(LoopFrom(fc.cats, Lower(description), 1, InitialLocals))
(***************************************************************************)
(* One call of _categorize_faults, statement by statement.                 *)
(* fault_description keeps the argument; the code's rebinding to its       *)
(* lower-case form is the Lower(fault_description) the loop reads.         *)
(***************************************************************************)
Locals ==
    [best_match |-> best_match, best_subcategory |-> best_subcategory,
     highest_score |-> highest_score, match_density |-> match_density]

FaultCategoryFiles ==
    {[schema |-> TRUE, cats |-> t] : t \in Taxonomies}
        \cup {[schema |-> FALSE, cats |-> << >>]}

\* no chat entry point has been called
ChatIdle ==
    /\ session = "idle"
    /\ query = << >>
    /\ fallback = "idle"
    /\ chat_pc = "idle"
    /\ attempts = 0
    /\ response = [kind |-> "none"]

StoreIdle ==
    /\ cfg = [kind |-> "idle"]
    /\ data = << >>
    /\ vf = [state |-> "idle"]
    /\ qpp = [state |-> "idle"]
    /\ report = [kind |-> "idle"]
    /\ previous = [kind |-> "idle"]
    /\ open_date = [dtype |-> "idle", values |-> << >>]
    /\ ChatIdle

\* no entity, no processor call
KardexIdle ==
    /\ fault = << >>
    /\ transformations = << >>
    /\ sheet = [name |-> "idle", columns |-> {}, rows |-> << >>]
    /\ outcome = [kind |-> "idle"]

\* no test runner
RunnerIdle ==
    /\ test_execution = [sequence |-> << >>]
    /\ executed_tests = {}
    /\ failed_tests = {}
    /\ runner_pc = "idle"
    /\ position = 0
    /\ attempt = 0
    /\ started = << >>
    /\ run_result = [kind |-> "idle"]

\* no log manager
LogIdle ==
    /\ max_logs = 0
    /\ logs = << >>
    /\ log_id = 0
    /\ log_lock = 0
    /\ thread_pc = << >>
    /\ logged = << >>
    /\ got = [kind |-> "idle"]

ClassifierInit ==
    /\ fault_categories \in FaultCategoryFiles
    /\ fault_description \in Texts \cup {NoneValue}
    /\ pc = "call"
    /\ idx = 1
    /\ best_match = NoSub
    /\ best_subcategory = NoSub
    /\ highest_score = Zero
    /\ match_density = Zero
    /\ scored = 0
    /\ result = PendingResult
    /\ first_result = PendingResult

Init == ClassifierInit /\ StoreIdle /\ KardexIdle /\ RunnerIdle /\ LogIdle

\* lines 172-173: the guard on the argument
CategorizeGuard ==
    /\ pc = "call"
    /\ IsEmptyInput(fault_description)
    /\ result' = UncategorizedResult
    /\ pc' = "done"
    /\ UNCHANGED <<fault_categories, fault_description, idx, best_match,
                   best_subcategory, highest_score, match_density, scored>>
    /\ UNCHANGED first_result
    /\ UNCHANGED storeVars
    /\ UNCHANGED toolVars

\* lines 175-179: lower-casing and the initial locals
CategorizeEnter ==
    /\ pc = "call"
    /\ ~IsEmptyInput(fault_description)
    /\ best_match' = InitialLocals.best_match
    /\ best_subcategory' = InitialLocals.best_subcategory
    /\ highest_score' = InitialLocals.highest_score
    /\ match_density' = InitialLocals.match_density
    /\ idx' = 1
    /\ pc' = "loop"
    /\ UNCHANGED <<fault_categories, fault_description, scored, result>>
    /\ UNCHANGED first_result
    /\ UNCHANGED storeVars
    /\ UNCHANGED toolVars

\* lines 182-229: one pass of the loop
CategorizeScore ==
    /\ pc = "loop"
    /\ fault_categories.schema
    /\ idx <= Len(fault_categories.cats)
    /\ ~fault_categories.cats[idx].malformed
    /\ LET next == LoopStep(Locals, idx, fault_categories.cats[idx],
                            Lower(fault_description))
       IN /\ best_match' = next.best_match
          /\ best_subcategory' = next.best_subcategory
          /\ highest_score' = next.highest_score
          /\ match_density' = next.match_density
    /\ idx' = idx + 1
    /\ scored' = scored + 1
    /\ UNCHANGED <<fault_categories, fault_description, pc, result>>
    /\ UNCHANGED first_result
    /\ UNCHANGED storeVars
    /\ UNCHANGED toolVars

\* lines 231-233: an exception in the loop (no 'fault_categories' key, or
\* a category that cannot be scored)
CategorizeExcept ==
    /\ pc = "loop"
    /\ \/ ~fault_categories.schema
       \/ /\ idx <= Len(fault_categories.cats)
          /\ fault_categories.cats[idx].malformed
    /\ result' = OnScoringError
    /\ pc' = "done"
    /\ UNCHANGED <<fault_categories, fault_description, idx, best_match,
                   best_subcategory, highest_score, match_density, scored>>
    /\ UNCHANGED first_result
    /\ UNCHANGED storeVars
    /\ UNCHANGED toolVars

\* lines 235-240: the statements after the loop
CategorizeReturn ==
    /\ pc = "loop"
    /\ fault_categories.schema
    /\ idx > Len(fault_categories.cats)
    /\ result' = ReturnOf(Locals)
    /\ pc' = "done"
    /\ UNCHANGED <<fault_categories, fault_description, idx, best_match,
                   best_subcategory, highest_score, match_density, scored>>
    /\ UNCHANGED first_result
    /\ UNCHANGED storeVars
    /\ UNCHANGED toolVars

Next ==
    \/ CategorizeGuard
    \/ CategorizeEnter
    \/ CategorizeScore
    \/ CategorizeExcept
    \/ CategorizeReturn

Spec == Init /\ [][Next]_vars
(***************************************************************************)
(* Claims about _categorize_faults.                                        *)
(***************************************************************************)
Cats == fault_categories.cats
WellFormed == ~ScoringRaises(fault_categories)
Returned == pc = "done" /\ result.status = "returned"
NonEmptyText == fault_description # NoneValue /\ fault_description # << >>

\* category_score of category c for the text of this call
ScoreOf(c) == ScoreCategory(Cats[c], Lower(fault_description)).total_score
DensityOf(c) == ScoreCategory(Cats[c], Lower(fault_description)).current_match_density

\* c is the first category, in load order, whose score is maximal
FirstMaximal(c) ==
    /\ \A d \in 1..Len(Cats) : RatLeq(ScoreOf(d), ScoreOf(c))
    /\ \A d \in 1..(c - 1) : RatLess(ScoreOf(d), ScoreOf(c))

\* C1: for a non-empty text and a taxonomy that can be scored, the returned
\* main category is the first category in load order whose category_score is
\* maximal, provided that maximum is > 0; an equal later score never displaces it.
C1_FirstMaximalWins ==
    (Returned /\ NonEmptyText /\ WellFormed) =>
        \A c \in 1..Len(Cats) :
            (FirstMaximal(c) /\ RatLess(Zero, ScoreOf(c))) => result.main = CatNames[c]

C1_Witness ==
    /\ Returned /\ NonEmptyText /\ WellFormed
    /\ Len(Cats) >= 2
    /\ ScoreOf(1) = ScoreOf(2)
    /\ RatLess(Zero, ScoreOf(1))
    /\ Cats[1] # Cats[2]
    /\ result.main = CatNames[1]

\* C2: every returned confidence lies in [0,1]; for a category other than
\* Uncategorized it is min(winning_score/4 + match_density*0.5, 1.0), computed
\* from the winning category's own score and density, and is > 0; for
\* Uncategorized it is exactly 0.
C2_ConfidenceRange ==
    Returned =>
        /\ RatLeq(Zero, result.confidence) /\ RatLeq(result.confidence, One)
        /\ result.main = Uncategorized => result.confidence = Zero
        /\ result.main # Uncategorized =>
              /\ RatLess(Zero, result.confidence)
              /\ \E c \in 1..Len(Cats) :
                    /\ result.main = CatNames[c]
                    /\ LET raw == RatAdd(RatScale(ScoreOf(c), 1, 4),
                                         RatScale(DensityOf(c), 1, 2))
                       IN result.confidence = IF RatLess(One, raw) THEN One ELSE raw

C2_Witness ==
    /\ Returned
    /\ result.main = CatNames[1]
    /\ result.confidence = One
    /\ RatLess(One, RatAdd(RatScale(ScoreOf(1), 1, 4), RatScale(DensityOf(1), 1, 2)))

\* C3: for the empty string and for None the call returns
\* ("Uncategorized", None, 0) whatever the taxonomy, and scores no category.
C3_EmptyInput ==
    (pc = "done" /\ (fault_description = << >> \/ fault_description = NoneValue)) =>
        /\ result = UncategorizedResult
        /\ scored = 0

C3_Witness ==
    /\ pc = "done"
    /\ fault_description = << >>
    /\ Len(Cats) >= 1
    /\ result = UncategorizedResult

\* k occurs in the main keyword list or in a subcategory keyword list of details
IsKeywordOf(k, details) ==
    \/ \E i \in 1..Len(details.keywords) : details.keywords[i] = k
    \/ \E j \in 1..Len(details.subcategories) :
          \E i \in 1..Len(details.subcategories[j]) : details.subcategories[j][i] = k

\* C4 as stated: classifying a keyword k of category C returns C unless k is
\* also a keyword of an earlier category with a higher score.
C4_Original ==
    (Returned /\ NonEmptyText /\ WellFormed) =>
        \A c \in 1..Len(Cats) :
            ( /\ IsKeywordOf(fault_description, Cats[c])
              /\ ~\E d \in 1..(c - 1) :
                    /\ IsKeywordOf(fault_description, Cats[d])
                    /\ RatLess(ScoreOf(c), ScoreOf(d)) )
            => result.main = CatNames[c]

\* C4 (amended): classifying a keyword k of category C never returns
\* Uncategorized, and returns C unless another category scores strictly higher
\* or an earlier category scores at least as high.
C4_KeywordClassified ==
    (Returned /\ NonEmptyText /\ WellFormed) =>
        \A c \in 1..Len(Cats) :
            IsKeywordOf(fault_description, Cats[c]) =>
                /\ result.main # Uncategorized
                /\ ( /\ \A d \in 1..(c - 1) : RatLess(ScoreOf(d), ScoreOf(c))
                     /\ \A d \in (c + 1)..Len(Cats) : RatLeq(ScoreOf(d), ScoreOf(c)) )
                   => result.main = CatNames[c]

C4_Witness ==
    /\ Returned /\ NonEmptyText /\ WellFormed
    /\ Len(Cats) >= 2
    /\ IsKeywordOf(fault_description, Cats[2])
    /\ ~IsKeywordOf(fault_description, Cats[1])
    /\ RatLess(Zero, ScoreOf(1))
    /\ RatLess(ScoreOf(1), ScoreOf(2))
    /\ result.main = CatNames[2]

\* C6: the call never raises: it always returns, and an error while scoring
\* yields ("Uncategorized", None, 0), also after a category has already scored.
C6_NeverRaises ==
    pc = "done" =>
        /\ result.status = "returned"
        /\ (NonEmptyText /\ ~WellFormed) => result = UncategorizedResult

C6_Witness ==
    /\ pc = "done"
    /\ NonEmptyText
    /\ Len(Cats) >= 2
    /\ ~Cats[1].malformed /\ Cats[2].malformed
    /\ best_match = CatNames[1]
    /\ result = UncategorizedResult
(***************************************************************************)
(* The record collection: VehicleFault(data) and QueryPreProcessor().      *)
(*                                                                         *)
(* cfg is config/fault_categories.yaml as the constructors find it:        *)
(* missing, unparsable (yaml.safe_load raises), or loaded with the parsed  *)
(* content.  A row is [vt, text]: its 'Vehicle Type' and the combined      *)
(* 'Job Description' + ' ' + 'Nature of Complaint'.  A row of the frame    *)
(* adds main (FaultMainCategory) and sub (FaultSubCategory).               *)
(***************************************************************************)
NaNType == <<"NaN">>    \* a missing 'Vehicle Type'
VehicleTypes == {<<"p">>, <<"p", "m">>}
RowTexts == {<<"a">>, <<"b">>, <<"a", "b">>}
Rows == [vt : VehicleTypes \cup {NaNType}, text : RowTexts]

StoreTaxonomy ==
    << [keywords |-> << <<"a">> >>, subcategories |-> << << <<"a", "b">> >> >>,
        malformed |-> FALSE],
       [keywords |-> << <<"b">> >>, subcategories |-> << >>, malformed |-> FALSE] >>

NoContent == [schema |-> FALSE, cats |-> << >>]
ConfigFiles ==
    {[kind |-> "missing", content |-> NoContent],
     [kind |-> "unparsable", content |-> NoContent],
     [kind |-> "loaded", content |-> NoContent],
     [kind |-> "loaded", content |-> [schema |-> TRUE, cats |-> StoreTaxonomy]]}

\* categorize_faults, lines 111-125: the file is opened and parsed, and any
\* failure returns None
LoadFails(c) == c.kind # "loaded"

\* "sub_categories.append(sub_cat if sub_cat else '')"
SubColumn(sub) == IF sub = NoSub THEN EmptyStr ELSE sub

\* categorize_faults and lines 77-79 of __init__: the frame's category columns.
\* On a load failure the columns keep the missing values of lines 65-68.
CategorizedFrame(c, rows) ==
    [i \in 1..Len(rows) |->
        IF LoadFails(c)
        THEN [vt |-> rows[i].vt, text |-> rows[i].text, main |-> NaN, sub |-> NaN]
        ELSE LET r == CategorizeFaults(c.content, rows[i].text)
             IN [vt |-> rows[i].vt, text |-> rows[i].text,
                 main |-> r.main, sub |-> SubColumn(r.sub)]]

\* mutant: a load failure is fatal to the constructor
NewVehicleFaultStrict(c, rows) ==
    IF LoadFails(c) THEN [state |-> "raised", df |-> << >>]
    ELSE [state |-> "built", df |-> CategorizedFrame(c, rows)]

\* VehicleFault.__init__: every exception of categorize_faults is caught
NewVehicleFault(c, rows) == [state |-> "built", df |-> CategorizedFrame(c, rows)]

\* QueryPreProcessor._load_fault_categories: a failure to open or parse the
\* file yields {'fault_categories': {}}
LoadFaultCategories(c) ==
    IF LoadFails(c) THEN [schema |-> TRUE, cats |-> << >>] ELSE c.content

\* QueryPreProcessor.__init__ with _build_entity_mappings, which reads
\* self.fault_categories['fault_categories'] and data.get of every category
NewQueryPreProcessor(c) ==
    LET fc == LoadFaultCategories(c)
    IN IF ScoringRaises(fc) THEN [state |-> "raised", fault_categories |-> fc]
       ELSE [state |-> "built", fault_categories |-> fc]

(***************************************************************************)
(* pandas helpers.                                                         *)
(***************************************************************************)
RECURSIVE Perms(_)
Perms(S) ==
    IF S = {} THEN {<< >>}
    ELSE UNION {{<<x>> \o q : q \in Perms(S \ {x})} : x \in S}

PosIn(seq, v) == CHOOSE i \in 1..Len(seq) : seq[i] = v

\* the distinct non-missing values of the column col ("main" or "sub")
Present(df, col) == {df[i][col] : i \in 1..Len(df)} \ {NaN}

\* Series.unique() of 'Vehicle Type' without the missing values
\* ("if pd.isna(vehicle_type): continue")
PresentTypes(df) == {df[i].vt : i \in 1..Len(df)} \ {NaNType}

\* mutant: the last row is not counted
CountOfSkipLast(df, col, v) == Cardinality({i \in 1..(Len(df) - 1) : df[i][col] = v})

\* the number of rows whose column col holds v
CountOf(df, col, v) == Cardinality({i \in 1..Len(df) : df[i][col] = v})

\* df[df[col] == v]
FilterRows(df, col, v) == SelectSeq(df, LAMBDA r : r[col] = v)

\* mutant: value_counts(ascending=True)
SortsBeforeAscending(ca, cb) == ca < cb

\* whether a count sorts before another in value_counts(): the greater first
SortsBefore(ca, cb) == ca > cb

\* Series.value_counts(): the distinct non-missing values with their counts,
\* greatest count first; prio (a permutation of the values) orders equal
\* counts, whose order pandas leaves open
RECURSIVE ValueCountsOf(_, _, _, _)
ValueCountsOf(df, col, V, prio) ==
    IF V = {} THEN << >>
    ELSE LET top == CHOOSE v \in V : \A w \in V \ {v} :
                        \/ SortsBefore(CountOf(df, col, v), CountOf(df, col, w))
                        \/ /\ CountOf(df, col, v) = CountOf(df, col, w)
                           /\ PosIn(prio, v) < PosIn(prio, w)
         IN <<[value |-> top, count |-> CountOf(df, col, top)]>>
                \o ValueCountsOf(df, col, V \ {top}, prio)

ValueCounts(df, col, prio) == ValueCountsOf(df, col, Present(df, col), prio)

\* Series.head(n) for n >= 0
SeriesHead(seq, n) == SubSeq(seq, 1, Min(n, Len(seq)))

\* round(count / total * 100, 2), in hundredths of a percent (exact below 32 rows)
Pct(count, total) == (count * 20000 + total) \div (2 * total)

(***************************************************************************)
(* VehicleFault.get_fault_statistics.                                      *)
(***************************************************************************)
\* lines 412-428: the count of one vehicle type
VehicleTypeCount(df, vehicle_type) ==
    LET count == Cardinality({i \in 1..Len(df) :
                                df[i].vt = vehicle_type /\ df[i].main # NaN})
    IN IF count = 0
       THEN Cardinality({i \in 1..Len(df) : df[i].vt = vehicle_type})
       ELSE count

FaultStatistics(df) ==
    [kind |-> "statistics",
     main_categories |-> [c \in Present(df, "main") |-> CountOf(df, "main", c)],
     sub_categories |->
        [c \in Present(df, "main") |->
            LET in_main == FilterRows(df, "main", c)
            IN [sc \in Present(in_main, "sub") |-> CountOf(in_main, "sub", sc)]],
     vehicle_types |-> [t \in PresentTypes(df) |-> VehicleTypeCount(df, t)]]

(***************************************************************************)
(* VehicleFault.get_fault_count(vehicle_type) without a fault type, and    *)
(* get_fault_count_by_vehicle_type.                                        *)
(***************************************************************************)
\* Series.str.contains(pattern, case=False, na=False) on one value
StrContains(value, pattern) ==
    value # NaNType /\ Contains(Lower(value), Lower(pattern))

FaultCount(df, vehicle_type) ==
    LET vehicle_mask == {i \in 1..Len(df) : StrContains(df[i].vt, vehicle_type)}
        categorized_mask == {i \in 1..Len(df) : df[i].main # NaN}
    IN IF vehicle_mask = {} THEN 0
       ELSE IF categorized_mask # {}
            THEN Cardinality(vehicle_mask \cap categorized_mask)
            ELSE Cardinality(vehicle_mask)

FaultCountByVehicleType(df) ==
    [kind |-> "by_vehicle_type",
     counts |-> [t \in PresentTypes(df) |-> FaultCount(df, t)]]

(***************************************************************************)
(* VehicleFault.get_top_faults.                                            *)
(***************************************************************************)
\* lines 616-624: one entry of the subcategory ranking
SubcategoryEntry(df, e, total) ==
    [subcategory |-> e.value,
     main_category |-> df[CHOOSE i \in 1..Len(df) :
                            /\ df[i].sub = e.value
                            /\ \A j \in 1..(i - 1) : df[j].sub # e.value].main,
     count |-> e.count,
     percentage |-> Pct(e.count, total)]

\* lines 645-651: one line of the breakdown of a category
BreakdownEntry(e, count) ==
    [name |-> e.value, count |-> e.count, percentage |-> Pct(e.count, count)]

\* mutant: the breakdown divides by the number of all records
CategoryEntryGrandTotal(df, e, total, prioSub) ==
    LET sub_counts == ValueCounts(FilterRows(df, "main", e.value), "sub", prioSub)
    IN [category |-> e.value,
        count |-> e.count,
        percentage |-> Pct(e.count, total),
        subcategories |-> [k \in 1..Len(sub_counts) |->
                              BreakdownEntry(sub_counts[k], total)]]

\* lines 638-658: one entry of the category ranking
CategoryEntry(df, e, total, prioSub) ==
    LET sub_counts == ValueCounts(FilterRows(df, "main", e.value), "sub", prioSub)
    IN [category |-> e.value,
        count |-> e.count,
        percentage |-> Pct(e.count, total),
        subcategories |-> [k \in 1..Len(sub_counts) |->
                              BreakdownEntry(sub_counts[k], e.count)]]

TopFaults(df, limit, by_subcategory, prioMain, prioSub) ==
    LET total == Len(df)
    IN IF by_subcategory
       THEN LET top == SeriesHead(ValueCounts(df, "sub", prioSub), limit)
            IN [kind |-> "top_subcategories", limit |-> limit, total_faults |-> total,
                top |-> [k \in 1..Len(top) |-> SubcategoryEntry(df, top[k], total)]]
       ELSE LET top == SeriesHead(ValueCounts(df, "main", prioMain), limit)
            IN [kind |-> "top_categories", limit |-> limit, total_faults |-> total,
                top |-> [k \in 1..Len(top) |-> CategoryEntry(df, top[k], total, prioSub)]]

(***************************************************************************)
(* The store as a state machine.                                           *)
(***************************************************************************)
ClassifierIdle ==
    /\ fault_categories = NoContent
    /\ fault_description = NoneValue
    /\ pc = "idle"
    /\ idx = 1
    /\ best_match = NoSub
    /\ best_subcategory = NoSub
    /\ highest_score = Zero
    /\ match_density = Zero
    /\ scored = 0
    /\ result = PendingResult
    /\ first_result = PendingResult

NoObject == [state |-> "none"]
NoReport == [kind |-> "none"]
\* a frame built from rows that carry no 'Open Date'
NoDates == [dtype |-> "absent", values |-> << >>]

StoreInit ==
    /\ cfg \in ConfigFiles
    /\ data \in SeqsUpTo(Rows, MaxRecords)
    /\ vf = NoObject
    /\ qpp = NoObject
    /\ report = NoReport
    /\ previous = NoReport
    /\ open_date = NoDates
    /\ ChatIdle
    /\ ClassifierIdle
    /\ KardexIdle /\ RunnerIdle /\ LogIdle

\* A caller holds one report at a time: an aggregation call starts with none.

\* VehicleFault(data), lines 49-81
ConstructVehicleFault ==
    /\ vf.state = "none"
    /\ vf' = NewVehicleFault(cfg, data)
    /\ UNCHANGED <<cfg, data, qpp, report>>
    /\ UNCHANGED <<previous, open_date>>
    /\ UNCHANGED chatVars
    /\ UNCHANGED classifierVars
    /\ UNCHANGED toolVars

\* QueryPreProcessor(), lines 17-46
ConstructQueryPreProcessor ==
    /\ qpp.state = "none"
    /\ qpp' = NewQueryPreProcessor(cfg)
    /\ UNCHANGED <<cfg, data, vf, report>>
    /\ UNCHANGED <<previous, open_date>>
    /\ UNCHANGED chatVars
    /\ UNCHANGED classifierVars
    /\ UNCHANGED toolVars

GetFaultStatistics ==
    /\ vf.state = "built"
    /\ report = NoReport
    /\ report' = FaultStatistics(vf.df)
    /\ UNCHANGED <<cfg, data, vf, qpp>>
    /\ UNCHANGED <<previous, open_date>>
    /\ UNCHANGED chatVars
    /\ UNCHANGED classifierVars
    /\ UNCHANGED toolVars

GetFaultCountByVehicleType ==
    /\ vf.state = "built"
    /\ report = NoReport
    /\ report' = FaultCountByVehicleType(vf.df)
    /\ UNCHANGED <<cfg, data, vf, qpp>>
    /\ UNCHANGED <<previous, open_date>>
    /\ UNCHANGED chatVars
    /\ UNCHANGED classifierVars
    /\ UNCHANGED toolVars

GetTopFaults ==
    /\ vf.state = "built"
    /\ report = NoReport
    /\ \E limit \in 0..MaxRecords, by_subcategory \in BOOLEAN,
          prioMain \in Perms(Present(vf.df, "main")),
          prioSub \in Perms(Present(vf.df, "sub")) :
            report' = TopFaults(vf.df, limit, by_subcategory, prioMain, prioSub)
    /\ UNCHANGED <<cfg, data, vf, qpp>>
    /\ UNCHANGED <<previous, open_date>>
    /\ UNCHANGED chatVars
    /\ UNCHANGED classifierVars
    /\ UNCHANGED toolVars

\* the caller lets go of the returned report; the next call starts from none
DropReport ==
    /\ report # NoReport
    /\ report' = NoReport
    /\ previous' = NoReport
    /\ UNCHANGED <<cfg, data, vf, qpp, open_date>>
    /\ UNCHANGED chatVars
    /\ UNCHANGED classifierVars
    /\ UNCHANGED toolVars

StoreNext ==
    \/ ConstructVehicleFault
    \/ GetFaultStatistics
    \/ GetFaultCountByVehicleType
    \/ GetTopFaults
    \/ DropReport

StoreSpec == StoreInit /\ [][StoreNext]_vars

\* the two constructors alone, on every state of the configuration file
ConstructNext ==
    \/ ConstructVehicleFault
    \/ ConstructQueryPreProcessor

ConstructSpec == StoreInit /\ [][ConstructNext]_vars
(***************************************************************************)
(* Claims about construction.                                              *)
(***************************************************************************)
TaxonomyUsable(c) == c.kind = "loaded" /\ c.content.schema /\ c.content.cats # << >>

RECURSIVE SumOver(_, _)
SumOver(f, S) ==
    IF S = {} THEN 0
    ELSE LET x == CHOOSE y \in S : TRUE IN f[x] + SumOver(f, S \ {x})

SumOfCounts(f) == SumOver(f, DOMAIN f)

Abs(x) == IF x < 0 THEN -x ELSE x

\* p (hundredths of a percent) is count / whole * 100 rounded to two decimals
IsPercentOf(p, count, whole) == 2 * Abs(p * whole - 10000 * count) <= whole

C8_Original ==
    /\ report.kind = "top_categories" =>
          \A k \in 1..Len(report.top) :
              \A j \in 1..Len(report.top[k].subcategories) :
                  IsPercentOf(report.top[k].subcategories[j].percentage,
                              report.top[k].subcategories[j].count,
                              CountOf(vf.df, "main", report.top[k].category))
    /\ report.kind = "top_subcategories" =>
          \A k \in 1..Len(report.top) :
              LET in_main == FilterRows(vf.df, "main", report.top[k].main_category)
              IN IsPercentOf(report.top[k].percentage,
                             CountOf(in_main, "sub", report.top[k].subcategory),
                             Len(in_main))

\* C8 (amended): in the breakdown of a category by get_top_faults a
\* sub-category's percentage is its count within that category over the
\* category's count; in the ranking of the top subcategories it is the
\* sub-category's count over the number of all records.
C8_SubPercentages ==
    /\ report.kind = "top_categories" =>
          \A k \in 1..Len(report.top) :
              \A j \in 1..Len(report.top[k].subcategories) :
                  LET e == report.top[k].subcategories[j]
                      in_main == FilterRows(vf.df, "main", report.top[k].category)
                  IN /\ e.count = CountOf(in_main, "sub", e.name)
                     /\ IsPercentOf(e.percentage, e.count, Len(in_main))
    /\ report.kind = "top_subcategories" =>
          \A k \in 1..Len(report.top) :
              /\ report.top[k].count = CountOf(vf.df, "sub", report.top[k].subcategory)
              /\ IsPercentOf(report.top[k].percentage, report.top[k].count, Len(vf.df))

C8_Witness ==
    /\ report.kind = "top_categories"
    /\ Len(report.top) >= 1
    /\ report.top[1].count = 2
    /\ report.total_faults = 3
    /\ Len(report.top[1].subcategories) = 2
    /\ report.top[1].subcategories[1].percentage = 5000

\* the count the vehicle-type policy prescribes for type t
PolicyCount(df, t) ==
    LET categorized == Cardinality({i \in 1..Len(df) : df[i].vt = t /\ df[i].main # NaN})
    IN IF categorized = 0 THEN Cardinality({i \in 1..Len(df) : df[i].vt = t})
       ELSE categorized

\* C9: in get_fault_statistics and in get_fault_count_by_vehicle_type each
\* occurring vehicle type is reported with the number of its categorized
\* records, or of all its records when none is categorized, hence >= 1.
C9_VehicleTypeCounts ==
    /\ report.kind = "statistics" =>
          /\ DOMAIN report.vehicle_types = PresentTypes(vf.df)
          /\ \A t \in PresentTypes(vf.df) :
                report.vehicle_types[t] = PolicyCount(vf.df, t)
                    /\ report.vehicle_types[t] >= 1
    /\ report.kind = "by_vehicle_type" =>
          /\ DOMAIN report.counts = PresentTypes(vf.df)
          /\ \A t \in PresentTypes(vf.df) :
                report.counts[t] = PolicyCount(vf.df, t) /\ report.counts[t] >= 1

\* the name an entry of a ranking carries
EntryName(e) == IF report.kind = "top_subcategories" THEN e.subcategory ELSE e.category
RankedColumn == IF report.kind = "top_subcategories" THEN "sub" ELSE "main"

\* C10: get_top_faults(limit, by_subcategory), limit >= 0, returns at most
\* limit entries in non-increasing order of count, each percentage <= 100, and
\* the entries are the limit highest-count values of the ranked column.
C10_TopFaults ==
    report.kind \in {"top_categories", "top_subcategories"} =>
        LET top == report.top
            names == {EntryName(top[k]) : k \in 1..Len(top)}
            values == Present(vf.df, RankedColumn)
        IN /\ Len(top) <= report.limit
           /\ Len(top) = Min(report.limit, Cardinality(values))
           /\ Cardinality(names) = Len(top)
           /\ names \subseteq values
           /\ \A k \in 1..Len(top) :
                 /\ top[k].count = CountOf(vf.df, RankedColumn, EntryName(top[k]))
                 /\ top[k].percentage <= 10000
                 /\ k < Len(top) => top[k].count >= top[k + 1].count
                 /\ \A v \in values \ names :
                       CountOf(vf.df, RankedColumn, v) <= top[k].count
           /\ report.kind = "top_categories" =>
                 \A k \in 1..Len(top) : \A j \in 1..Len(top[k].subcategories) :
                     top[k].subcategories[j].percentage <= 10000

C10_Witness ==
    /\ report.kind = "top_categories"
    /\ report.limit = 1
    /\ Cardinality(Present(vf.df, "main")) = 2
    /\ Len(report.top) = 1
    /\ report.top[1].count = 2
    /\ report.top[1].percentage = 6667
(***************************************************************************)
(* Query text.  A query is a string like every other: a sequence of        *)
(* one-character strings.                                                  *)
(***************************************************************************)
\* str.replace(old, new): every occurrence of old, leftmost first, not
\* overlapping; characters between occurrences are copied
RECURSIVE StrReplace(_, _, _)
StrReplace(s, old, new) ==
    IF Len(s) < Len(old) THEN s
    ELSE IF SubSeq(s, 1, Len(old)) = old
         THEN new \o StrReplace(SubSeq(s, Len(old) + 1, Len(s)), old, new)
         ELSE <<s[1]>> \o StrReplace(SubSeq(s, 2, Len(s)), old, new)

\* the ten decimal digits, "0" first
Digits == <<"0", "1", "2", "3", "4", "5", "6", "7", "8", "9">>

\* whether int(s) succeeds: a non-empty run of digits
IsInt(s) ==
    /\ Len(s) > 0
    /\ \A i \in 1..Len(s) : \E d \in 1..10 : Digits[d] = s[i]

\* int(s) of a run of digits
RECURSIVE IntOf(_)
IntOf(s) ==
    IF Len(s) = 0 THEN 0
    ELSE 10 * IntOf(SubSeq(s, 1, Len(s) - 1))
            + (CHOOSE d \in 0..9 : Digits[d + 1] = s[Len(s)])

\* PandasChat._preprocess_query: four str.replace calls, in the order of the
\* replacements dictionary
PreprocessQuery(q) ==
    LET r1 == StrReplace(q, <<"F", "a", "u", "l", "t", "s">>, <<"F", "a", "u", "l", "t", " ", "C", "a", "t", "e", "g", "o", "r", "i", "e", "s">>)
        r2 == StrReplace(r1, <<"f", "a", "u", "l", "t", "s">>, <<"f", "a", "u", "l", "t", " ", "c", "a", "t", "e", "g", "o", "r", "i", "e", "s">>)
        r3 == StrReplace(r2, <<"F", "a", "u", "l", "t", " ", "D", "e", "t", "a", "i", "l", "s">>, <<"F", "a", "u", "l", "t", " ", "S", "u", "b", "-", "C", "a", "t", "e", "g", "o", "r", "i", "e", "s">>)
    IN StrReplace(r3, <<"f", "a", "u", "l", "t", " ", "d", "e", "t", "a", "i", "l", "s">>, <<"f", "a", "u", "l", "t", " ", "s", "u", "b", "-", "c", "a", "t", "e", "g", "o", "r", "i", "e", "s">>)

(***************************************************************************)
(* PandasChat.handle_category_query and handle_year_query, on the frame    *)
(* PandasChat holds: prepare_dataframe returns the VehicleFault's own      *)
(* _df, not a copy.  'Open Date' is kept apart from the rows, as a column  *)
(* [dtype, values]: "datetime64" with Timestamps, "object" with strings,   *)
(* or "absent" (VehicleFault.__init__ then adds it, every value pd.NA).    *)
(* 'Done Date' and 'Actual Finish Date' are absent from the records.       *)
(***************************************************************************)
NaT == [kind |-> "NaT", year |-> 0, text |-> << >>]
Timestamp(year) == [kind |-> "ts", year |-> year, text |-> << >>]
DateString(text) == [kind |-> "str", year |-> 0, text |-> text]

\* pd.to_datetime(value, errors='coerce'): a string that is a year parses to
\* the first day of that year, any other string and pd.NA give NaT
ToDatetime(v) ==
    IF v.kind = "ts" THEN v
    ELSE IF v.kind = "str" /\ Len(v.text) = 4 /\ IsInt(v.text)
         THEN Timestamp(IntOf(v.text))
         ELSE NaT

\* the 'Open Date' columns of a frame of n rows
DateColumns(n) ==
    {[dtype |-> "absent", values |-> << >>]}
        \cup {[dtype |-> "datetime64", values |-> v] :
                v \in [1..n -> {Timestamp(2021), Timestamp(2022)}]}
        \cup {[dtype |-> "object", values |-> v] :
                v \in [1..n -> {DateString(<<"2", "0", "2", "2">>), DateString(<<"n", "/", "a">>)}]}

\* "{percentage:.1f}": count / total * 100 in tenths of a percent (exact
\* below 16 rows)
PctOneDecimal(count, total) == (count * 2000 + total) \div (2 * total)

\* lines 204-216: the lines of the categories from the k-th on
RECURSIVE CategoryLines(_, _, _, _, _)
CategoryLines(df, category_col, category_counts, k, response_lines) ==
    IF k > Len(category_counts) THEN response_lines
    ELSE IF category_counts[k].value = EmptyStr
    THEN CategoryLines(df, category_col, category_counts, k + 1, response_lines)
    ELSE LET category == category_counts[k].value
             with_line == Append(response_lines,
                 [type |-> "category", category |-> category,
                  count |-> category_counts[k].count,
                  percentage |-> PctOneDecimal(category_counts[k].count, Len(df)),
                  complaint |-> << >>])
             samples == SeriesHead(FilterRows(df, category_col, category), 2)
             sample_lines ==
                 <<[type |-> "samples", category |-> category, count |-> 0,
                    percentage |-> 0, complaint |-> << >>]>>
                 \o [i \in 1..Len(samples) |->
                        [type |-> "sample", category |-> category, count |-> 0,
                         percentage |-> 0,
                         complaint |-> SubSeq(samples[i].text, 1,
                                              Min(100, Len(samples[i].text)))]]
         IN CategoryLines(df, category_col, category_counts, k + 1,
                IF category_col = "main" /\ Len(with_line) < 20 /\ samples # << >>
                THEN with_line \o sample_lines ELSE with_line)

\* mutant: the share of the categorized records heads the answer
CategoryQueryWithShare(df, q, prio) ==
    IF Len(df) = 0 THEN [kind |-> "error", text |-> "division by zero"]
    ELSE [kind |-> "category_distribution", category_type |-> "main categories",
          total |-> Len(df), lines |-> << >>]

\* handle_category_query on a frame with both category columns.  The two
\* lines that head the answer are its category_type and total; lines holds
\* the rest.
CategoryQuery(df, q, prio) ==
    LET is_sub_category == Contains(Lower(PreprocessQuery(q)), <<"s", "u", "b">>)
        category_col == IF is_sub_category THEN "sub" ELSE "main"
    IN [kind |-> "category_distribution",
        category_type |-> IF is_sub_category THEN "sub-categories"
                          ELSE "main categories",
        total |-> Len(df),
        lines |-> CategoryLines(df, category_col,
                                ValueCounts(df, category_col, prio), 1, << >>)]

\* handle_year_query(df, year), lines 79-114: the coerced column it leaves in
\* df, and what it returns.  int(str(year)) raises for None; the handler of
\* lines 102-105 then goes on with no row selected.
YearQuery(df, dates, year) ==
    LET coerced ==
            IF dates.dtype = "datetime64" THEN dates
            ELSE [dtype |-> "datetime64",
                  values |-> [i \in 1..Len(df) |->
                                IF dates.dtype = "absent" THEN NaT
                                ELSE ToDatetime(dates.values[i])]]
        selected == SelectSeq([i \in 1..Len(df) |-> i],
                        LAMBDA i : /\ IsInt(year)
                                   /\ coerced.values[i].kind = "ts"
                                   /\ coerced.values[i].year = IntOf(year))
    IN [open_date |-> coerced,
        returned |->
            IF selected = << >> THEN [kind |-> "no_work_orders", year |-> year]
            ELSE [kind |-> "work_orders", year |-> year,
                  rows |-> [k \in 1..Len(selected) |-> df[selected[k]]],
                  dates |-> [k \in 1..Len(selected) |->
                                coerced.values[selected[k]]]]]

(***************************************************************************)
(* The handlers as a state machine, on records with an 'Open Date'.        *)
(***************************************************************************)
QueryRows == [vt : {<<"p">>}, text : RowTexts]

HandlerInit ==
    /\ cfg \in ConfigFiles
    /\ data \in SeqsUpTo(QueryRows, MaxRecords)
    /\ open_date \in DateColumns(Len(data))
    /\ vf = NoObject
    /\ qpp = NoObject
    /\ report = NoReport
    /\ previous = NoReport
    /\ ChatIdle
    /\ ClassifierIdle
    /\ KardexIdle /\ RunnerIdle /\ LogIdle

\* handle_category_query(self.df, query).  Before VehicleFault(data) the
\* frame is the rows as read, without the category columns (line 182).
HandleCategoryQuery ==
    /\ report = NoReport
    /\ \E q \in {<<"f", "a", "u", "l", "t", "s">>, <<"F", "a", "u", "l", "t", " ", "D", "e", "t", "a", "i", "l", "s">>, <<"s", "u", "b", "s", "y", "s", "t", "e", "m", "s">>} :
          IF vf.state = "built"
          THEN \E prio \in Perms(Present(vf.df, "main") \cup Present(vf.df, "sub")) :
                  report' = CategoryQuery(vf.df, q, prio)
          ELSE report' = [kind |-> "categories_unavailable"]
    /\ UNCHANGED <<cfg, data, vf, qpp, previous, open_date>>
    /\ UNCHANGED chatVars
    /\ UNCHANGED classifierVars
    /\ UNCHANGED toolVars

\* handle_year_query(self.df, year)
HandleYearQuery ==
    /\ vf.state = "built"
    /\ report = NoReport
    /\ \E year \in {<<"2", "0", "2", "1">>, <<"2", "0", "2", "2">>, NoneValue} :
          LET r == YearQuery(vf.df, open_date, year)
          IN report' = r.returned /\ open_date' = r.open_date
    /\ UNCHANGED <<cfg, data, vf, qpp, previous>>
    /\ UNCHANGED chatVars
    /\ UNCHANGED classifierVars
    /\ UNCHANGED toolVars

HandlerNext ==
    \/ ConstructVehicleFault
    \/ GetFaultStatistics
    \/ GetTopFaults
    \/ HandleCategoryQuery
    \/ HandleYearQuery
    \/ DropReport

HandlerSpec == HandlerInit /\ [][HandlerNext]_vars
(***************************************************************************)
(* Claims about the handlers.                                              *)
(***************************************************************************)
IsTopReport == report.kind \in {"top_categories", "top_subcategories"}

\* C11: get_fault_statistics, get_top_faults and handle_category_query on a
\* collection of no records return an empty, zero-total report and never the
\* report of a caught exception; on any collection, a report that carries a
\* percentage has a positive total (and a breakdown a positive count).
C11_EmptyCollection ==
    /\ report.kind # "error"
    /\ (vf.state = "built" /\ vf.df = << >>) =>
          /\ report.kind = "statistics" =>
                /\ DOMAIN report.main_categories = {}
                /\ DOMAIN report.sub_categories = {}
                /\ DOMAIN report.vehicle_types = {}
          /\ IsTopReport => report.total_faults = 0 /\ report.top = << >>
          /\ report.kind = "category_distribution" =>
                report.total = 0 /\ report.lines = << >>
    /\ (IsTopReport /\ report.top # << >>) => report.total_faults > 0
    /\ report.kind = "top_categories" =>
          \A k \in 1..Len(report.top) :
              report.top[k].subcategories # << >> => report.top[k].count > 0
    /\ (report.kind = "category_distribution" /\ report.lines # << >>) =>
          report.total > 0

C11_Witness ==
    /\ vf.state = "built"
    /\ vf.df = << >>
    /\ report.kind = "category_distribution"
    /\ report.total = 0
    /\ report.lines = << >>
(***************************************************************************)
(* The same call twice on one VehicleFault: _categorize_faults on the same *)
(* text, get_fault_statistics on the same records.  The locals keep what   *)
(* the earlier call left in them until the later call assigns them.         *)
(***************************************************************************)
RepeatInit ==
    /\ cfg \in ConfigFiles
    /\ data \in SeqsUpTo(QueryRows, MaxRecords)
    /\ open_date = NoDates
    /\ vf = NoObject
    /\ qpp = NoObject
    /\ report = NoReport
    /\ previous = NoReport
    /\ ChatIdle
    /\ ClassifierIdle
    /\ KardexIdle /\ RunnerIdle /\ LogIdle

\* vf._categorize_faults(text): self.fault_categories is what
\* categorize_faults loaded (lines 111-121), absent after a failed load
CallCategorizeFaults ==
    /\ vf.state = "built"
    /\ pc = "idle"
    /\ fault_description' \in RowTexts \cup {NoneValue}
    /\ fault_categories' = IF LoadFails(cfg) THEN NoContent ELSE cfg.content
    /\ pc' = "call"
    /\ UNCHANGED <<idx, best_match, best_subcategory, highest_score,
                   match_density, scored, result, first_result>>
    /\ UNCHANGED storeVars
    /\ UNCHANGED toolVars

\* the caller keeps the returned tuple and calls again with the same text
CallCategorizeFaultsAgain ==
    /\ pc = "done"
    /\ first_result = PendingResult
    /\ first_result' = result
    /\ result' = PendingResult
    /\ scored' = 0
    /\ pc' = "call"
    /\ UNCHANGED <<fault_categories, fault_description, idx, best_match,
                   best_subcategory, highest_score, match_density>>
    /\ UNCHANGED storeVars
    /\ UNCHANGED toolVars

\* the caller keeps the returned statistics and calls get_fault_statistics again
RepeatFaultStatistics ==
    /\ vf.state = "built"
    /\ report.kind = "statistics"
    /\ previous = NoReport
    /\ previous' = report
    /\ report' = FaultStatistics(vf.df)
    /\ UNCHANGED <<cfg, data, vf, qpp, open_date>>
    /\ UNCHANGED chatVars
    /\ UNCHANGED classifierVars
    /\ UNCHANGED toolVars

RepeatNext ==
    \/ ConstructVehicleFault
    \/ CallCategorizeFaults
    \/ CategorizeGuard
    \/ CategorizeEnter
    \/ CategorizeScore
    \/ CategorizeExcept
    \/ CategorizeReturn
    \/ CallCategorizeFaultsAgain
    \/ GetFaultStatistics
    \/ RepeatFaultStatistics
    \/ DropReport

RepeatSpec == RepeatInit /\ [][RepeatNext]_vars

OpenDateOf(dates, i) == IF dates.dtype = "absent" THEN NaT ELSE dates.values[i]

\* C13: no aggregation or query operation changes a field of a record of the
\* collection it reads: once the VehicleFault is built, every step of
\* get_fault_statistics, get_top_faults and the category and year handlers
\* leaves the rows, their classification and their 'Open Date' as they were.
C13_RecordsUnchanged ==
    [][vf.state = "built" =>
          /\ vf' = vf
          /\ \A i \in 1..Len(vf.df) :
                OpenDateOf(open_date', i) = OpenDateOf(open_date, i)]_vars
(***************************************************************************)
(* Query entity extraction: PandasChat._extract_top_n and _extract_year.   *)
(***************************************************************************)
\* the end of the longest run of characters of C that starts at s[i]: the
\* first position from i on that holds no character of C (greedy \s+, \d+)
SpanEnd(s, i, C) ==
    CHOOSE j \in i..(Len(s) + 1) :
        /\ \A k \in i..(j - 1) : s[k] \in C
        /\ j = Len(s) + 1 \/ s[j] \notin C

\* whether c is a character of \w: of the characters of the queries, all
\* but the blank and the punctuation
IsWordChar(c) == c \notin {" ", "-", "/", ".", ",", "?", "'"}

\* str(n) of a natural number
RECURSIVE StrOfInt(_)
StrOfInt(n) ==
    IF n < 10 THEN <<Digits[n + 1]>>
    ELSE StrOfInt(n \div 10) \o <<Digits[(n % 10) + 1]>>

\* mutant: the digits after 'top' are not read
ExtractTopNWordsOnly(q) ==
    LET words == <<<<"o", "n", "e">>, <<"t", "w", "o">>, <<"t", "h", "r", "e", "e">>, <<"f", "o", "u", "r">>, <<"f", "i", "v", "e">>,
                   <<"s", "i", "x">>, <<"s", "e", "v", "e", "n">>, <<"e", "i", "g", "h", "t">>, <<"n", "i", "n", "e">>, <<"t", "e", "n">>>>
        found == IF q = NoneValue THEN {}
                 ELSE {w \in 1..10 : Contains(Lower(q), <<"t", "o", "p", " ">> \o words[w])}
    IN IF found # {} THEN CHOOSE w \in found : \A v \in found : w <= v
       ELSE 3

\* PandasChat._extract_top_n: re.search(r'top\s+(\d+)', query.lower()), the
\* leftmost match; else the first number word w of the table, in its order,
\* with 'top ' + w in the query; else 3.  query.lower() of None raises, and
\* the except clause returns 3.
ExtractTopN(q) ==
    IF q = NoneValue THEN 3
    ELSE
    LET lower == Lower(q)
        digit == {Digits[d] : d \in 1..10}
        matches == {i \in 1..Len(lower) :
                      /\ i + 2 <= Len(lower)
                      /\ SubSeq(lower, i, i + 2) = <<"t", "o", "p">>
                      /\ SpanEnd(lower, i + 3, {" "}) > i + 3
                      /\ SpanEnd(lower, SpanEnd(lower, i + 3, {" "}), digit)
                            > SpanEnd(lower, i + 3, {" "})}
        words == <<<<"o", "n", "e">>, <<"t", "w", "o">>, <<"t", "h", "r", "e", "e">>, <<"f", "o", "u", "r">>, <<"f", "i", "v", "e">>,
                   <<"s", "i", "x">>, <<"s", "e", "v", "e", "n">>, <<"e", "i", "g", "h", "t">>, <<"n", "i", "n", "e">>, <<"t", "e", "n">>>>
        found == {w \in 1..10 : Contains(lower, <<"t", "o", "p", " ">> \o words[w])}
    IN IF matches # {}
       THEN LET i == CHOOSE m \in matches : \A o \in matches : m <= o
                from == SpanEnd(lower, i + 3, {" "})
            IN IntOf(SubSeq(lower, from, SpanEnd(lower, from, digit) - 1))
       ELSE IF found # {}
            THEN CHOOSE w \in found : \A v \in found : w <= v
            ELSE 3

\* mutant: the literal year is not looked for
ExtractYearPhrasesOnly(q, now) ==
    IF q = NoneValue THEN NoneValue
    ELSE IF Contains(Lower(q), <<"t", "h", "i", "s", " ", "y", "e", "a", "r">>) THEN StrOfInt(now)
    ELSE IF Contains(Lower(q), <<"l", "a", "s", "t", " ", "y", "e", "a", "r">>) THEN StrOfInt(now - 1)
    ELSE IF Contains(Lower(q), <<"p", "r", "e", "v", "i", "o", "u", "s", " ", "y", "e", "a", "r">>) THEN StrOfInt(now - 1)
    ELSE IF Contains(Lower(q), <<"n", "e", "x", "t", " ", "y", "e", "a", "r">>) THEN StrOfInt(now + 1)
    ELSE NoneValue

\* PandasChat._extract_year: re.search(r'\b(19|20)\d{2}\b', query), the
\* leftmost match, as the matched text; else the first phrase of the table,
\* in its order, that query.lower() contains, as str(year) with now the year
\* of datetime.now(); else None.  re.search on None raises, and the except
\* clause returns None.
ExtractYear(q, now) ==
    IF q = NoneValue THEN NoneValue
    ELSE
    LET digit == {Digits[d] : d \in 1..10}
        matches == {i \in 1..Len(q) :
                      /\ i + 3 <= Len(q)
                      /\ SubSeq(q, i, i + 1) \in {<<"1", "9">>, <<"2", "0">>}
                      /\ q[i + 2] \in digit /\ q[i + 3] \in digit
                      /\ i = 1 \/ ~IsWordChar(q[i - 1])
                      /\ i + 3 = Len(q) \/ ~IsWordChar(q[i + 4])}
    IN IF matches # {}
       THEN LET i == CHOOSE m \in matches : \A o \in matches : m <= o
            IN SubSeq(q, i, i + 3)
       ELSE IF Contains(Lower(q), <<"t", "h", "i", "s", " ", "y", "e", "a", "r">>) THEN StrOfInt(now)
       ELSE IF Contains(Lower(q), <<"l", "a", "s", "t", " ", "y", "e", "a", "r">>) THEN StrOfInt(now - 1)
       ELSE IF Contains(Lower(q), <<"p", "r", "e", "v", "i", "o", "u", "s", " ", "y", "e", "a", "r">>) THEN StrOfInt(now - 1)
       ELSE IF Contains(Lower(q), <<"n", "e", "x", "t", " ", "y", "e", "a", "r">>) THEN StrOfInt(now + 1)
       ELSE NoneValue

(***************************************************************************)
(* The three entry points of a query: the /chat/query route of main.py,    *)
(* PandasChat.chat and PandasChat.chat_query.  The analytics fallback      *)
(* (SmartDataframe.chat) is an external call: it answers, raises, or does  *)
(* not come back.                                                          *)
(***************************************************************************)
\* any(keyword in text for keyword in terms), text being query.lower()
ContainsAny(text, terms) == \E t \in terms : Contains(text, t)

\* mutant: the distribution keywords are tested before the year keywords
HttpIntentDistributionFirst(q) ==
    IF ContainsAny(Lower(q), {<<"d", "i", "s", "t", "r", "i", "b", "u", "t", "i", "o", "n">>, <<"b", "r", "e", "a", "k", "d", "o", "w", "n">>, <<"c", "a", "t", "e", "g", "o", "r", "i", "e", "s">>})
    THEN "category_distribution"
    ELSE IF ContainsAny(Lower(q), {<<"y", "e", "a", "r">>, <<"w", "h", "e", "n">>, <<"d", "a", "t", "e">>})
         THEN "year"
         ELSE "generic"

\* main.chat_query, lines 174, 175 and 191: the branch a query enters.  The
\* test of line 175 holds of every VehicleFault, whose constructor adds a
\* missing 'Open Date'.
HttpIntent(q) ==
    IF ContainsAny(Lower(q), {<<"y", "e", "a", "r">>, <<"w", "h", "e", "n">>, <<"d", "a", "t", "e">>})
    THEN "year"
    ELSE IF ContainsAny(Lower(q), {<<"d", "i", "s", "t", "r", "i", "b", "u", "t", "i", "o", "n">>, <<"b", "r", "e", "a", "k", "d", "o", "w", "n">>, <<"c", "a", "t", "e", "g", "o", "r", "i", "e", "s">>})
         THEN "category_distribution"
         ELSE "generic"

\* main.chat_query, lines 176-182: the years of the 'Open Date' column,
\* ascending and without the missing ones, each with its number of records
YearListing(open) ==
    LET years == {open[i].year : i \in {j \in 1..Len(open) : open[j].kind = "ts"}}
        sorted == CHOOSE s \in [1..Cardinality(years) -> years] :
                     \A i, j \in 1..Cardinality(years) : i < j => s[i] < s[j]
    IN [k \in 1..Cardinality(years) |->
           [year |-> sorted[k],
            count |-> Cardinality({i \in 1..Len(open) :
                                     open[i].kind = "ts" /\ open[i].year = sorted[k]})]]

\* main.chat_query, lines 192-200, on the dictionary get_fault_statistics
\* returned: stats['fault_categories'] raises KeyError when the key is
\* missing; otherwise one line per category, by descending count
DistributionReply(stats) ==
    IF "fault_categories" \notin DOMAIN stats
    THEN [kind |-> "error", handler |-> "category_distribution",
          text |-> <<"'", "f", "a", "u", "l", "t", "_", "c", "a", "t", "e", "g", "o", "r", "i", "e", "s", "'">>]
    ELSE LET categories == stats.fault_categories
             total == SumOver(categories, DOMAIN categories)
             order == CHOOSE p \in Perms(DOMAIN categories) :
                         \A i, j \in 1..Len(p) :
                            i < j => categories[p[i]] >= categories[p[j]]
         IN [kind |-> "distribution", handler |-> "category_distribution",
             lines |-> [k \in 1..Len(order) |->
                          [category |-> order[k],
                           count |-> categories[order[k]],
                           percentage |-> PctOneDecimal(categories[order[k]], total)]]]

\* the /chat/query route of main.py as a whole, for a session sess:
\* "none" (no excel_data), "no_data" (excel_data without 'data'), "data"
\* (records with a 'WO No') or "data_without_wo_no".  c is the category
\* file, rows and dates the records of the session.
HttpReply(c, sess, rows, dates, q) ==
    IF q = NoneValue \/ q = << >>
    THEN [kind |-> "provide_a_query", handler |-> "none"]
    ELSE IF sess = "none"
    THEN [kind |-> "upload_first", handler |-> "none"]
    ELSE IF sess = "no_data"
    THEN [kind |-> "no_data_in_file", handler |-> "none"]
    ELSE IF sess = "data_without_wo_no" /\ rows # << >>
    THEN [kind |-> "error", handler |-> "none",
          text |-> <<"M", "i", "s", "s", "i", "n", "g", " ", "r", "e", "q", "u", "i", "r", "e", "d", " ", "c", "o", "l", "u", "m", "n", "s">>]
    ELSE
    LET df == NewVehicleFault(c, rows).df
        methods == {"get_active_faults", "get_vehicle_history",
                    "get_fault_statistics", "get_faults_by_category",
                    "get_fault_count", "get_fault_count_by_vehicle_type",
                    "get_top_faults", "_categorize_faults", "categorize_faults",
                    "add_fault", "close_fault", "to_excel", "copy"}
        custom_methods == {"filter_records", "get_filtered_count",
                           "get_active_faults", "get_vehicle_history",
                           "get_faults_by_category", "_categorize_faults",
                           "get_fault_statistics"}
    IN CASE HttpIntent(q) = "year" ->
              IF rows = << >> \/ dates.dtype = "absent"
              THEN [kind |-> "error", handler |-> "year",
                    text |-> <<"C", "a", "n", " ", "o", "n", "l", "y", " ", "u", "s", "e", " ", ".", "d", "t", " ", "a", "c", "c", "e", "s", "s", "o", "r">>]
              ELSE [kind |-> "years", handler |-> "year",
                    lines |-> YearListing([i \in 1..Len(rows) |->
                                              ToDatetime(dates.values[i])])]
         [] HttpIntent(q) = "category_distribution" ->
              DistributionReply(FaultStatistics(df))
         [] OTHER ->
              IF custom_methods \subseteq methods
              THEN [kind |-> "fallback", handler |-> "generic"]
              ELSE [kind |-> "error", handler |-> "generic",
                    text |-> <<"n", "o", " ", "a", "t", "t", "r", "i", "b", "u", "t", "e", " ", "'", "f", "i", "l", "t", "e", "r", "_", "r", "e", "c", "o", "r", "d", "s", "'">>]

\* the outcomes of SmartDataframe.chat
Fallbacks ==
    {"answers", "raises_exception", "raises_attribute_error",
     "raises_timedelta_error", "hangs"}

\* whether the fallback call comes back to its caller, with an answer or an
\* exception: neither caller passes a timeout
FallbackResponded(f) == f # "hangs"

\* mutant: the AttributeError re-raised at line 831 leaves chat()
OnChatErrorPropagates == [kind |-> "raised"]

\* PandasChat.chat, lines 849-853: the outer except clause
OnChatError == [kind |-> "error_in_chat"]

\* PandasChat.chat from the fallback's outcome on (lines 808-847)
ChatOutcome(q, f, enhanced) ==
    IF f = "answers"
    THEN [kind |-> IF enhanced THEN "enhanced_answer" ELSE "raw_answer"]
    ELSE IF ContainsAny(Lower(q), {<<"y", "e", "a", "r">>, <<"m", "o", "n", "t", "h">>, <<"w", "e", "e", "k">>, <<"a", "n", "n", "u", "a", "l">>,
                                   <<"m", "o", "n", "t", "h", "l", "y">>, <<"w", "e", "e", "k", "l", "y">>})
    THEN [kind |-> "unable_time_based"]
    ELSE IF f = "raises_timedelta_error"
    THEN [kind |-> "unable_time_based"]
    ELSE IF f = "raises_attribute_error"
    THEN OnChatError
    ELSE [kind |-> "unable_due_to_error"]

\* PandasChat.chat_query from the fallback's outcome on (lines 426-443)
ChatQueryOutcome(f) ==
    IF f = "answers" THEN [kind |-> "processed_answer"]
    ELSE [kind |-> "error_processing_chat_query"]

(***************************************************************************)
(* The entry points as a state machine: one query against one session.     *)
(***************************************************************************)
Queries ==
    {<<"t", "o", "p", " ", "5", " ", "f", "a", "u", "l", "t", "s">>, <<"T", "o", "p", " ", "f", "i", "v", "e", " ", "f", "a", "u", "l", "t", "s">>, <<"t", "o", "p", " ", "t", "w", "o", " ", "o", "f", " ", "t", "o", "p", " ", "5">>,
     <<"t", "o", "p", " ", " ", "7", " ", "f", "a", "u", "l", "t", "s">>, <<"t", "o", "p", "5">>, <<"t", "o", "p", " ", "s", "i", "x", "t", "e", "e", "n", " ", "f", "a", "u", "l", "t", "s">>,
     <<"m", "o", "s", "t", " ", "c", "o", "m", "m", "o", "n", " ", "f", "a", "u", "l", "t", "s">>, <<"t", "o", "p", " ", "f", "a", "u", "l", "t", "s", " ", "b", "y", " ", "y", "e", "a", "r">>,
     <<"t", "o", "p", " ", "3", " ", "f", "a", "u", "l", "t", "s", " ", "i", "n", " ", "2", "0", "2", "2">>, <<"f", "a", "u", "l", "t", "s", " ", "i", "n", " ", "2", "0", "2", "2">>,
     <<"f", "a", "u", "l", "t", "s", " ", "i", "n", " ", "2", "0", "2", "1", " ", "o", "r", " ", "l", "a", "s", "t", " ", "y", "e", "a", "r">>, <<"f", "a", "u", "l", "t", "s", " ", "l", "a", "s", "t", " ", "y", "e", "a", "r">>,
     <<"t", "h", "i", "s", " ", "y", "e", "a", "r", " ", "o", "r", " ", "n", "e", "x", "t", " ", "y", "e", "a", "r">>, <<"p", "r", "e", "v", "i", "o", "u", "s", " ", "y", "e", "a", "r", " ", "f", "a", "u", "l", "t", "s">>, <<"w", "o", " ", "2", "0", "2", "2", "5">>,
     <<"f", "a", "u", "l", "t", " ", "d", "i", "s", "t", "r", "i", "b", "u", "t", "i", "o", "n">>, <<"d", "i", "s", "t", "r", "i", "b", "u", "t", "i", "o", "n", " ", "b", "y", " ", "y", "e", "a", "r">>, <<"l", "i", "s", "t", " ", "c", "a", "t", "e", "g", "o", "r", "i", "e", "s">>,
     <<"w", "h", "a", "t", " ", "a", "r", "e", " ", "t", "h", "e", " ", "f", "a", "u", "l", "t", "s">>, <<"b", "a", "t", "t", "e", "r", "y", " ", "b", "r", "e", "a", "k", "d", "o", "w", "n">>, <<"h", "o", "w", " ", "m", "a", "n", "y", " ", "f", "a", "u", "l", "t", "s">>,
     <<"u", "p", "d", "a", "t", "e", " ", "r", "e", "c", "o", "r", "d", "s">>, <<"s", "h", "o", "w", " ", "d", "e", "f", "a", "u", "l", "t", "s">>, <<"m", "o", "n", "t", "h", "l", "y", " ", "f", "a", "u", "l", "t", "s">>,
     <<"F", "a", "u", "l", "t", " ", "D", "e", "t", "a", "i", "l", "s">>, << >>, NoneValue}

ChatInit ==
    /\ cfg = [kind |-> "loaded", content |-> [schema |-> TRUE, cats |-> StoreTaxonomy]]
    /\ session \in {"none", "no_data", "data", "data_without_wo_no"}
    /\ data \in IF session \in {"none", "no_data"} THEN {<< >>}
                ELSE SeqsUpTo([vt : {<<"p">>}, text : {<<"a">>}], MaxRecords)
    /\ open_date \in DateColumns(Len(data))
    /\ query \in Queries
    /\ fallback = "none"
    /\ chat_pc = "idle"
    /\ attempts = 0
    /\ response = [kind |-> "none"]
    /\ vf = NoObject
    /\ qpp = NoObject
    /\ report = NoReport
    /\ previous = NoReport
    /\ ClassifierIdle
    /\ KardexIdle /\ RunnerIdle /\ LogIdle

\* POST /chat/query
HttpChatQuery ==
    /\ chat_pc = "idle"
    /\ response' = HttpReply(cfg, session, data, open_date, query)
    /\ chat_pc' = "returned"
    /\ UNCHANGED <<session, query, fallback, attempts>>
    /\ UNCHANGED <<cfg, data, vf, qpp, report, previous, open_date>>
    /\ UNCHANGED classifierVars
    /\ UNCHANGED toolVars

\* PandasChat.chat up to the call of the fallback (lines 766-811, 820).
\* self.df is None without records; query.lower() of None raises.
ChatStart ==
    /\ chat_pc = "idle"
    /\ IF session \in {"none", "no_data"} \/ data = << >>
       THEN /\ response' = [kind |-> "no_data_for_analysis"]
            /\ chat_pc' = "returned"
            /\ UNCHANGED <<fallback, attempts>>
       ELSE IF query = NoneValue
       THEN /\ response' = OnChatError
            /\ chat_pc' = "returned"
            /\ UNCHANGED <<fallback, attempts>>
       ELSE /\ fallback' \in Fallbacks
            /\ attempts' = attempts + 1
            /\ chat_pc' = "chat_waiting"
            /\ UNCHANGED response
    /\ UNCHANGED <<session, query>>
    /\ UNCHANGED <<cfg, data, vf, qpp, report, previous, open_date>>
    /\ UNCHANGED classifierVars
    /\ UNCHANGED toolVars

\* PandasChat.chat once the fallback has come back.  enhance_response
\* either returns or raises, and the raw answer is then returned.
ChatReturn ==
    /\ chat_pc = "chat_waiting"
    /\ FallbackResponded(fallback)
    /\ \E enhanced \in BOOLEAN : response' = ChatOutcome(query, fallback, enhanced)
    /\ chat_pc' = "returned"
    /\ UNCHANGED <<session, query, fallback, attempts>>
    /\ UNCHANGED <<cfg, data, vf, qpp, report, previous, open_date>>
    /\ UNCHANGED classifierVars
    /\ UNCHANGED toolVars

\* PandasChat.chat_query up to the call of the fallback (lines 398-425).
\* The battery count is answered without the fallback when the frame has
\* the category columns, which the frame of a VehicleFault has.
ChatQueryStart ==
    /\ chat_pc = "idle"
    /\ IF session \in {"none", "no_data"}
       THEN /\ response' = [kind |-> "no_data_for_analysis"]
            /\ chat_pc' = "returned"
            /\ UNCHANGED <<fallback, attempts>>
       ELSE IF query = NoneValue
       THEN /\ response' = ChatQueryOutcome("raises_attribute_error")
            /\ chat_pc' = "returned"
            /\ UNCHANGED <<fallback, attempts>>
       ELSE IF /\ Contains(Lower(query), <<"b", "a", "t", "t", "e", "r", "y">>)
               /\ ContainsAny(Lower(query), {<<"b", "r", "e", "a", "k", "d", "o", "w", "n">>, <<"h", "o", "w", " ", "m", "a", "n", "y">>})
               /\ session = "data"
       THEN /\ response' = [kind |-> "battery_count",
                            count |-> CountOf(NewVehicleFault(cfg, data).df, "main",
                                              "Battery System")]
            /\ chat_pc' = "returned"
            /\ UNCHANGED <<fallback, attempts>>
       ELSE /\ fallback' \in Fallbacks
            /\ attempts' = attempts + 1
            /\ chat_pc' = "chat_query_waiting"
            /\ UNCHANGED response
    /\ UNCHANGED <<session, query>>
    /\ UNCHANGED <<cfg, data, vf, qpp, report, previous, open_date>>
    /\ UNCHANGED classifierVars
    /\ UNCHANGED toolVars

\* PandasChat.chat_query once the fallback has come back
ChatQueryReturn ==
    /\ chat_pc = "chat_query_waiting"
    /\ FallbackResponded(fallback)
    /\ response' = ChatQueryOutcome(fallback)
    /\ chat_pc' = "returned"
    /\ UNCHANGED <<session, query, fallback, attempts>>
    /\ UNCHANGED <<cfg, data, vf, qpp, report, previous, open_date>>
    /\ UNCHANGED classifierVars
    /\ UNCHANGED toolVars

\* _extract_top_n(query)
CallExtractTopN ==
    /\ chat_pc = "idle"
    /\ response' = [kind |-> "top_n", value |-> ExtractTopN(query)]
    /\ chat_pc' = "returned"
    /\ UNCHANGED <<session, query, fallback, attempts>>
    /\ UNCHANGED <<cfg, data, vf, qpp, report, previous, open_date>>
    /\ UNCHANGED classifierVars
    /\ UNCHANGED toolVars

\* _extract_year(query), now being the year of datetime.now()
CallExtractYear ==
    /\ chat_pc = "idle"
    /\ \E now \in {2025, 2026} :
          response' = [kind |-> "year", now |-> now, value |-> ExtractYear(query, now)]
    /\ chat_pc' = "returned"
    /\ UNCHANGED <<session, query, fallback, attempts>>
    /\ UNCHANGED <<cfg, data, vf, qpp, report, previous, open_date>>
    /\ UNCHANGED classifierVars
    /\ UNCHANGED toolVars

\* _preprocess_query(query); None has no replace and the call raises
CallPreprocessQuery ==
    /\ chat_pc = "idle"
    /\ response' = IF query = NoneValue THEN [kind |-> "preprocess_raised"]
                   ELSE [kind |-> "preprocessed", text |-> PreprocessQuery(query)]
    /\ chat_pc' = "returned"
    /\ UNCHANGED <<session, query, fallback, attempts>>
    /\ UNCHANGED <<cfg, data, vf, qpp, report, previous, open_date>>
    /\ UNCHANGED classifierVars
    /\ UNCHANGED toolVars

ChatNext ==
    \/ HttpChatQuery
    \/ ChatStart
    \/ ChatReturn
    \/ ChatQueryStart
    \/ ChatQueryReturn
    \/ CallExtractTopN
    \/ CallExtractYear
    \/ CallPreprocessQuery

\* a fallback call that has come back is followed by the rest of the method
ChatSpec ==
    /\ ChatInit
    /\ [][ChatNext]_vars
    /\ WF_vars(ChatReturn)
    /\ WF_vars(ChatQueryReturn)
(***************************************************************************)
(* Claims about the resolution of a query.                                 *)
(***************************************************************************)
\* a reply of the /chat/query route that went through its dispatch
HttpDispatched ==
    /\ chat_pc = "returned"
    /\ response.kind \in {"error", "years", "distribution", "fallback"}
    /\ response.handler # "none"

\* the intent the five trigger sets give a query, in the order top, list,
\* year, distribution, generic; a year-like token is a literal year, a year
\* phrase or the word 'year'
ClaimedIntent(q) ==
    IF ContainsAny(Lower(q), {<<"t", "o", "p">>, <<"m", "o", "s", "t">>, <<"h", "i", "g", "h", "e", "s", "t">>}) THEN "top_n"
    ELSE IF ContainsAny(Lower(q), {<<"l", "i", "s", "t">>, <<"s", "h", "o", "w", " ", "a", "l", "l">>, <<"w", "h", "a", "t", " ", "a", "r", "e", " ", "t", "h", "e">>}) THEN "list"
    ELSE IF ExtractYear(q, 2026) # NoneValue \/ Contains(Lower(q), <<"y", "e", "a", "r">>) THEN "year"
    ELSE IF ContainsAny(Lower(q), {<<"d", "i", "s", "t", "r", "i", "b", "u", "t", "i", "o", "n">>, <<"b", "r", "e", "a", "k", "d", "o", "w", "n">>, <<"c", "a", "t", "e", "g", "o", "r", "i", "e", "s">>})
         THEN "category_distribution"
    ELSE "generic"

C15_TopN ==
    chat_pc = "returned" /\ response.kind = "top_n" =>
        IF query = NoneValue THEN response.value = 3
        ELSE
        LET q == Lower(query)
            digit == {"0", "1", "2", "3", "4", "5", "6", "7", "8", "9"}
            words == <<<<"o", "n", "e">>, <<"t", "w", "o">>, <<"t", "h", "r", "e", "e">>, <<"f", "o", "u", "r">>, <<"f", "i", "v", "e">>,
                       <<"s", "i", "x">>, <<"s", "e", "v", "e", "n">>, <<"e", "i", "g", "h", "t">>, <<"n", "i", "n", "e">>, <<"t", "e", "n">>>>
            Match(i, j, k) ==
                /\ i + 3 < j /\ j <= k /\ k <= Len(q)
                /\ SubSeq(q, i, i + 2) = <<"t", "o", "p">>
                /\ \A s \in (i + 3)..(j - 1) : q[s] = " "
                /\ \A d \in j..k : q[d] \in digit
                /\ k = Len(q) \/ q[k + 1] \notin digit
            Matches == {m \in (1..Len(q)) \X (1..Len(q)) \X (1..Len(q)) :
                          Match(m[1], m[2], m[3])}
            named == {w \in 1..10 : Contains(q, <<"t", "o", "p", " ">> \o words[w])}
        IN IF Matches # {}
           THEN \E m \in Matches :
                   /\ \A o \in Matches : m[1] <= o[1]
                   /\ response.value = IntOf(SubSeq(q, m[2], m[3]))
           ELSE IF named # {} THEN response.value \in named
           ELSE response.value = 3

\* a query with a number word before its digits gave the digits
C15_Witness ==
    /\ chat_pc = "returned"
    /\ response.kind = "top_n"
    /\ query = <<"t", "o", "p", " ", "t", "w", "o", " ", "o", "f", " ", "t", "o", "p", " ", "5">>
    /\ response.value = 5

TokenOccurs(q, term) ==
    \E i \in 1..Len(q) :
        /\ i + Len(term) - 1 <= Len(q)
        /\ SubSeq(q, i, i + Len(term) - 1) = term
        /\ i > 1 => ~IsWordChar(q[i - 1])
        /\ i + Len(term) - 1 < Len(q) => ~IsWordChar(q[i + Len(term)])

\* C17: a query in which no replaced term occurs as a whole token leaves
\* _preprocess_query as it was: a term inside a longer word is not rewritten.
C17_WholeTokensOnly ==
    (/\ chat_pc = "returned"
     /\ response.kind = "preprocessed"
     /\ \A term \in {<<"F", "a", "u", "l", "t", "s">>, <<"f", "a", "u", "l", "t", "s">>, <<"F", "a", "u", "l", "t", " ", "D", "e", "t", "a", "i", "l", "s">>, <<"f", "a", "u", "l", "t", " ", "d", "e", "t", "a", "i", "l", "s">>} :
           ~TokenOccurs(query, term))
        => response.text = query

\* C18: when the fallback raised, chat() and chat_query() returned one of
\* their error strings, and no reply of any entry point is an exception
\* that left it.
C18_FallbackErrorCaught ==
    /\ response.kind # "raised"
    /\ (/\ chat_pc = "returned"
        /\ fallback \in {"raises_exception", "raises_attribute_error",
                         "raises_timedelta_error"})
          => response.kind \in {"unable_time_based", "unable_due_to_error",
                                "error_in_chat", "error_processing_chat_query"}

\* chat() returned after the fallback raised an AttributeError that its
\* inner handler re-raised
C18_Witness ==
    /\ chat_pc = "returned"
    /\ fallback = "raises_attribute_error"
    /\ response.kind = "error_in_chat"

\* C19: every generic query on the records of a session that reached the
\* fallback eventually returns to its caller.
C19_EventuallyReturns ==
    (/\ chat_pc \in {"chat_waiting", "chat_query_waiting"}
     /\ data # << >>
     /\ query # << >>
     /\ ClaimedIntent(query) = "generic")
        ~> (chat_pc = "returned")

\* C20: a reply of the distribution branch to a query with no top, list or
\* year trigger has one line per non-empty category of the records, with its
\* count and count / records * 100 to one decimal, by non-increasing count.
C20_DistributionLines ==
    (/\ HttpDispatched
     /\ data # << >>
     /\ ClaimedIntent(query) = "category_distribution")
        =>
        LET df == NewVehicleFault(cfg, data).df
            cats == Present(df, "main") \ {EmptyStr}
        IN /\ response.kind = "distribution"
           /\ Len(response.lines) = Cardinality(cats)
           /\ \A c \in cats : \E k \in 1..Len(response.lines) :
                 /\ response.lines[k].category = c
                 /\ response.lines[k].count = CountOf(df, "main", c)
                 /\ response.lines[k].percentage
                        = PctOneDecimal(CountOf(df, "main", c), Len(df))
           /\ \A i, j \in 1..Len(response.lines) :
                 i < j => response.lines[i].count >= response.lines[j].count

(***************************************************************************)
(* The VehicleFault entity and KardexProcessor of domain/vehicle_leasing.  *)
(* An attribute value is [type, v]: v is the text of a str, the moment     *)
(* 'YYYY-MM-DD HH:MM:SS' of a Timestamp or datetime, the digits of an int, *)
(* and empty for None.  fault.attributes is a function from attribute      *)
(* names to values; (k :> x) @@ attrs is attributes[k] = x, and            *)
(* attrs @@ (k :> None) is what get_attribute(k) leaves behind.            *)
(***************************************************************************)

\* severity_indicators of _extract_severity_from_description, lower-case
SeverityIndicators(level) ==
    CASE level = "high" ->
           <<<<"u", "r", "g", "e", "n", "t">>, <<"e", "m", "e", "r", "g", "e", "n", "c", "y">>, <<"c", "r", "i", "t", "i", "c", "a", "l">>, <<"s", "e", "v", "e", "r", "e">>, <<"d", "a", "n", "g", "e", "r", "o", "u", "s">>,
             <<"i", "m", "m", "e", "d", "i", "a", "t", "e">>, <<"s", "a", "f", "e", "t", "y">>, <<"b", "r", "o", "k", "e", "n">>, <<"f", "a", "i", "l", "e", "d">>, <<"n", "o", "t", " ", "w", "o", "r", "k", "i", "n", "g">>,
             <<"b", "r", "e", "a", "k", "d", "o", "w", "n">>, <<"a", "c", "c", "i", "d", "e", "n", "t">>, <<"c", "o", "l", "l", "i", "s", "i", "o", "n">>, <<"s", "m", "o", "k", "e">>, <<"f", "i", "r", "e">>,
             <<"o", "v", "e", "r", "h", "e", "a", "t">>, <<"s", "t", "a", "l", "l">>, <<"s", "t", "u", "c", "k">>, <<"d", "e", "a", "d">>, <<"m", "a", "j", "o", "r">>, <<"s", "e", "r", "i", "o", "u", "s">>>>
      [] level = "medium" ->
           <<<<"r", "e", "p", "a", "i", "r">>, <<"r", "e", "p", "l", "a", "c", "e">>, <<"f", "i", "x">>, <<"c", "h", "e", "c", "k">>, <<"i", "n", "s", "p", "e", "c", "t">>, <<"w", "a", "r", "n", "i", "n", "g">>,
             <<"a", "t", "t", "e", "n", "t", "i", "o", "n">>, <<"m", "a", "i", "n", "t", "e", "n", "a", "n", "c", "e">>, <<"s", "e", "r", "v", "i", "c", "e">>, <<"w", "o", "r", "n">>, <<"n", "o", "i", "s", "e">>,
             <<"v", "i", "b", "r", "a", "t", "i", "o", "n">>, <<"l", "e", "a", "k">>, <<"l", "o", "o", "s", "e">>, <<"a", "d", "j", "u", "s", "t", "m", "e", "n", "t">>, <<"a", "l", "i", "g", "n", "m", "e", "n", "t">>,
             <<"u", "p", "d", "a", "t", "e">>>>
      [] level = "low" ->
           <<<<"m", "o", "n", "i", "t", "o", "r">>, <<"o", "b", "s", "e", "r", "v", "e">>, <<"n", "o", "t", "e">>, <<"c", "l", "e", "a", "n">>, <<"m", "i", "n", "o", "r">>, <<"c", "o", "s", "m", "e", "t", "i", "c">>,
             <<"s", "c", "r", "a", "t", "c", "h">>, <<"p", "o", "l", "i", "s", "h">>, <<"t", "o", "u", "c", "h", " ", "u", "p">>, <<"r", "o", "u", "t", "i", "n", "e">>, <<"n", "o", "r", "m", "a", "l">>,
             <<"r", "e", "g", "u", "l", "a", "r">>, <<"s", "t", "a", "n", "d", "a", "r", "d">>>>

\* VehicleFault.validate: [attributes, kind, value]; kind is "returned" with
\* the boolean, or "raised" (ValueError)
Validate(attrs) ==
    LET none == [type |-> "NoneType", v |-> << >>]
        falsy(x) == \/ x.type = "NoneType"
                    \/ x.type = "str" /\ x.v = << >>
                    \/ x.type = "int" /\ x.v = <<"0">>
        digitsAt(s, P) == \A i \in P : \E d \in 1..10 : Digits[d] = s[i]
        \* datetime.strptime(s, '%Y-%m-%d %H:%M:%S') succeeds
        strptime(s) ==
            /\ Len(s) = 19
            /\ digitsAt(s, {1, 2, 3, 4, 6, 7, 9, 10, 12, 13, 15, 16, 18, 19})
            /\ s[5] = "-" /\ s[8] = "-" /\ s[11] = " " /\ s[14] = ":" /\ s[17] = ":"
            /\ IntOf(SubSeq(s, 6, 7)) \in 1..12
            /\ IntOf(SubSeq(s, 9, 10)) \in 1..31
            /\ IntOf(SubSeq(s, 12, 13)) \in 0..23
            /\ IntOf(SubSeq(s, 15, 16)) \in 0..59
            /\ IntOf(SubSeq(s, 18, 19)) \in 0..61
        \* float(s) succeeds, for a str of digits with at most one point
        isFloat(x) ==
            \/ x.type = "int"
            \/ /\ x.type = "str"
               /\ \E i \in 1..Len(x.v) : digitsAt(x.v, {i})
               /\ \A i \in 1..Len(x.v) : digitsAt(x.v, {i}) \/ x.v[i] = "."
               /\ Cardinality({i \in 1..Len(x.v) : x.v[i] = "."}) <= 1
        \* int(s) succeeds
        isInt(x) == x.type = "int" \/ (x.type = "str" /\ IsInt(x.v))
        a1 == attrs @@ ("work_order" :> none)
        a2 == a1 @@ ("date" :> none)
        a3 == a2 @@ ("description" :> none)
        a4 == a3 @@ ("cost" :> none)
        a5 == a4 @@ ("mileage" :> none)
        date == a3["date"]
    IN  IF falsy(a1["work_order"])
          THEN [attributes |-> a1, kind |-> "returned", value |-> FALSE]
        ELSE IF falsy(a2["date"])
          THEN [attributes |-> a2, kind |-> "returned", value |-> FALSE]
        ELSE IF falsy(a3["description"])
          THEN [attributes |-> a3, kind |-> "returned", value |-> FALSE]
        ELSE IF date.type = "str" /\ ~strptime(date.v)
          THEN [attributes |-> a3, kind |-> "raised", value |-> FALSE]
        ELSE IF date.type \notin {"str", "datetime", "Timestamp"}
          THEN [attributes |-> a3, kind |-> "raised", value |-> FALSE]
        ELSE IF a4["cost"].type # "NoneType" /\ ~isFloat(a4["cost"])
          THEN [attributes |-> a4, kind |-> "returned", value |-> FALSE]
        ELSE IF a5["mileage"].type # "NoneType" /\ ~isInt(a5["mileage"])
          THEN [attributes |-> a5, kind |-> "returned", value |-> FALSE]
        ELSE [attributes |-> a5, kind |-> "returned", value |-> TRUE]

\* KardexProcessor._format_dates: [attributes, kind]; kind is "returned", or
\* "raised" (ValueError('Invalid date format'))
FormatDates(attrs) ==
    LET none == [type |-> "NoneType", v |-> << >>]
        a1 == attrs @@ ("date" :> none)
        date == a1["date"]
        digitsAt(s, P) == \A i \in P : \E d \in 1..10 : Digits[d] = s[i]
        dateOnly(s) ==
            /\ Len(s) >= 10
            /\ digitsAt(s, {1, 2, 3, 4, 6, 7, 9, 10})
            /\ s[5] = "-" /\ s[8] = "-"
            /\ IntOf(SubSeq(s, 6, 7)) \in 1..12
            /\ IntOf(SubSeq(s, 9, 10)) \in 1..31
        timeOfDay(s) ==
            /\ Len(s) = 19
            /\ digitsAt(s, {12, 13, 15, 16, 18, 19})
            /\ s[11] = " " /\ s[14] = ":" /\ s[17] = ":"
            /\ IntOf(SubSeq(s, 12, 13)) \in 0..23
            /\ IntOf(SubSeq(s, 15, 16)) \in 0..59
            /\ IntOf(SubSeq(s, 18, 19)) \in 0..59
        \* pd.to_datetime(s) of a str: the moment, or << >> when it raises
        to_datetime(s) ==
            IF dateOnly(s) /\ Len(s) = 10 THEN s \o <<" ", "0", "0", ":", "0", "0", ":", "0", "0">>
            ELSE IF dateOnly(s) /\ timeOfDay(s) THEN s
            ELSE << >>
        moment == IF date.type = "str" THEN to_datetime(date.v)
                  ELSE IF date.type \in {"Timestamp", "datetime"} THEN date.v
                  ELSE << >>
    IN  IF moment = << >>
          THEN [attributes |-> a1, kind |-> "raised"]
          \* strftime('%Y-%m-%d %H:%M:%S')
          ELSE [attributes |-> ("date" :> [type |-> "str", v |-> moment]) @@ a1,
                kind |-> "returned"]

\* KardexProcessor._clean_description with _extract_component_from_description
\* and _extract_severity_from_description: the attributes afterwards
CleanDescription(attrs) ==
    LET none == [type |-> "NoneType", v |-> << >>]
        a1 == attrs @@ ("description" :> none)
        original == a1["description"].v
        \* ' '.join(desc.split())
        RECURSIVE Join(_, _)
        Join(i, acc) ==
            IF i > Len(original) THEN acc
            ELSE IF original[i] = " " THEN Join(i + 1, acc)
            ELSE IF acc # << >> /\ original[i - 1] = " "
                 THEN Join(i + 1, acc \o <<" ", original[i]>>)
                 ELSE Join(i + 1, Append(acc, original[i]))
        desc == Join(1, << >>)
        a2 == ("description" :> [type |-> "str", v |-> desc]) @@ a1
        \* get_attribute('nature_of_complaint', '') is a TypeError, swallowed
        \* by the bare except: the description alone is searched
        description == Lower(desc)
        \* component_keywords, in the order of sorted(set(components))
        component_keywords ==
            <<[name |-> <<"b", "r", "a", "k", "e">>,
               keywords |-> {<<"b", "r", "a", "k", "e">>, <<"a", "b", "s">>, <<"r", "o", "t", "o", "r">>, <<"c", "a", "l", "i", "p", "e", "r">>, <<"b", "r", "a", "k", "e", " ", "p", "a", "d">>,
                             <<"b", "r", "a", "k", "e", " ", "f", "l", "u", "i", "d">>, <<"b", "r", "a", "k", "e", " ", "d", "i", "s", "c">>, <<"b", "r", "a", "k", "e", " ", "d", "r", "u", "m">>, <<"b", "r", "a", "k", "e", " ", "l", "i", "n", "e">>}],
              [name |-> <<"c", "o", "o", "l", "i", "n", "g">>,
               keywords |-> {<<"c", "o", "o", "l", "a", "n", "t">>, <<"r", "a", "d", "i", "a", "t", "o", "r">>, <<"w", "a", "t", "e", "r", " ", "p", "u", "m", "p">>, <<"t", "h", "e", "r", "m", "o", "s", "t", "a", "t">>,
                             <<"f", "a", "n">>, <<"h", "o", "s", "e">>, <<"t", "e", "m", "p", "e", "r", "a", "t", "u", "r", "e">>, <<"o", "v", "e", "r", "h", "e", "a", "t">>}],
              [name |-> <<"e", "l", "e", "c", "t", "r", "i", "c", "a", "l">>,
               keywords |-> {<<"e", "l", "e", "c", "t", "r", "i", "c", "a", "l">>, <<"b", "a", "t", "t", "e", "r", "y">>, <<"l", "i", "g", "h", "t">>, <<"c", "i", "g", "a", "r", " ", "l", "i", "g", "h", "t", "e", "r">>,
                             <<"c", "i", "g", "a", "r", "e", "t", "t", "e", " ", "l", "i", "g", "h", "t", "e", "r">>, <<"a", "i", "r", "c", "o", "n">>, <<"w", "i", "r", "i", "n", "g">>, <<"f", "u", "s", "e">>,
                             <<"r", "e", "l", "a", "y">>, <<"s", "w", "i", "t", "c", "h">>, <<"s", "e", "n", "s", "o", "r">>, <<"s", "t", "a", "r", "t", "e", "r">>,
                             <<"a", "l", "t", "e", "r", "n", "a", "t", "o", "r">>, <<"e", "c", "u">>}],
              [name |-> <<"e", "n", "g", "i", "n", "e">>,
               keywords |-> {<<"e", "n", "g", "i", "n", "e">>, <<"d", "p", "f">>, <<"t", "i", "m", "i", "n", "g", " ", "b", "e", "l", "t">>, <<"p", "u", "l", "l", "e", "y">>,
                             <<"w", "a", "t", "e", "r", " ", "p", "u", "m", "p">>, <<"o", "i", "l">>, <<"c", "o", "o", "l", "a", "n", "t">>, <<"m", "o", "t", "o", "r">>, <<"c", "y", "l", "i", "n", "d", "e", "r">>,
                             <<"p", "i", "s", "t", "o", "n">>, <<"c", "r", "a", "n", "k", "s", "h", "a", "f", "t">>, <<"v", "a", "l", "v", "e">>, <<"h", "e", "a", "d", " ", "g", "a", "s", "k", "e", "t">>,
                             <<"t", "u", "r", "b", "o">>}],
              [name |-> <<"e", "x", "h", "a", "u", "s", "t">>,
               keywords |-> {<<"e", "x", "h", "a", "u", "s", "t">>, <<"d", "p", "f">>, <<"r", "e", "g", "e", "n">>, <<"m", "u", "f", "f", "l", "e", "r">>, <<"c", "a", "t", "a", "l", "y", "t", "i", "c">>,
                             <<"e", "m", "i", "s", "s", "i", "o", "n">>, <<"s", "i", "l", "e", "n", "c", "e", "r">>}],
              [name |-> <<"f", "u", "e", "l">>,
               keywords |-> {<<"f", "u", "e", "l">>, <<"d", "i", "e", "s", "e", "l">>, <<"p", "e", "t", "r", "o", "l">>, <<"g", "a", "s">>, <<"i", "n", "j", "e", "c", "t", "o", "r">>,
                             <<"c", "a", "r", "b", "u", "r", "e", "t", "o", "r">>, <<"t", "a", "n", "k">>, <<"p", "u", "m", "p">>, <<"f", "i", "l", "t", "e", "r">>}],
              [name |-> <<"s", "t", "e", "e", "r", "i", "n", "g">>,
               keywords |-> {<<"s", "t", "e", "e", "r", "i", "n", "g">>, <<"p", "o", "w", "e", "r", " ", "s", "t", "e", "e", "r", "i", "n", "g">>, <<"r", "a", "c", "k">>, <<"t", "i", "e", " ", "r", "o", "d">>,
                             <<"s", "t", "e", "e", "r", "i", "n", "g", " ", "w", "h", "e", "e", "l">>, <<"s", "t", "e", "e", "r", "i", "n", "g", " ", "c", "o", "l", "u", "m", "n">>, <<"s", "t", "e", "e", "r", "i", "n", "g", " ", "p", "u", "m", "p">>}],
              [name |-> <<"s", "u", "s", "p", "e", "n", "s", "i", "o", "n">>,
               keywords |-> {<<"s", "u", "s", "p", "e", "n", "s", "i", "o", "n">>, <<"s", "h", "o", "c", "k">>, <<"a", "b", "s", "o", "r", "b", "e", "r">>, <<"m", "o", "u", "n", "t", "i", "n", "g">>,
                             <<"l", "i", "n", "k", " ", "r", "o", "d">>, <<"s", "t", "r", "u", "t">>, <<"s", "p", "r", "i", "n", "g">>, <<"b", "u", "s", "h", "i", "n", "g">>,
                             <<"b", "a", "l", "l", " ", "j", "o", "i", "n", "t">>, <<"c", "o", "n", "t", "r", "o", "l", " ", "a", "r", "m">>, <<"s", "t", "a", "b", "i", "l", "i", "z", "e", "r">>}],
              [name |-> <<"t", "i", "r", "e">>,
               keywords |-> {<<"t", "y", "r", "e">>, <<"t", "i", "r", "e">>, <<"w", "h", "e", "e", "l">>, <<"r", "i", "m">>, <<"a", "l", "i", "g", "n", "m", "e", "n", "t">>,
                             <<"b", "a", "l", "a", "n", "c", "i", "n", "g">>, <<"p", "u", "n", "c", "t", "u", "r", "e">>, <<"f", "l", "a", "t">>}],
              [name |-> <<"t", "r", "a", "n", "s", "m", "i", "s", "s", "i", "o", "n">>,
               keywords |-> {<<"t", "r", "a", "n", "s", "m", "i", "s", "s", "i", "o", "n">>, <<"g", "e", "a", "r">>, <<"c", "l", "u", "t", "c", "h">>, <<"t", "r", "a", "n", "s">>,
                             <<"d", "r", "i", "v", "e", " ", "s", "h", "a", "f", "t">>, <<"g", "e", "a", "r", "b", "o", "x">>, <<"d", "i", "f", "f", "e", "r", "e", "n", "t", "i", "a", "l">>, <<"f", "l", "y", "w", "h", "e", "e", "l">>,
                             <<"s", "y", "n", "c", "h", "r", "o">>}]>>
        \* ', '.join(sorted(set(components)))
        RECURSIVE ComponentStr(_, _)
        ComponentStr(i, acc) ==
            IF i > Len(component_keywords) THEN acc
            ELSE IF ContainsAny(description, component_keywords[i].keywords)
                 THEN ComponentStr(i + 1,
                          IF acc = << >> THEN component_keywords[i].name
                          ELSE acc \o <<",", " ">> \o component_keywords[i].name)
                 ELSE ComponentStr(i + 1, acc)
        component_str == ComponentStr(1, << >>)
        a3 == IF component_str = << >> THEN a2
              ELSE ("component" :> [type |-> "str", v |-> component_str]) @@ a2
        \* matches * weight
        score(level, weight) ==
            weight * Cardinality({k \in 1..Len(SeverityIndicators(level)) :
                                    Contains(description, SeverityIndicators(level)[k])})
        high == score("high", 3)
        medium == score("medium", 2)
        low == score("low", 1)
        \* max(severity_scores.items(), key=...): the first maximum, in the
        \* order high, medium, low; 'medium' when every score is 0
        severity == IF high = 0 /\ medium = 0 /\ low = 0 THEN <<"m", "e", "d", "i", "u", "m">>
                    ELSE IF high >= medium /\ high >= low THEN <<"h", "i", "g", "h">>
                    ELSE IF medium >= low THEN <<"m", "e", "d", "i", "u", "m">>
                    ELSE <<"l", "o", "w">>
    IN  IF a1["description"].type # "str" \/ original = << >> THEN a1
        ELSE ("severity" :> [type |-> "str", v |-> severity]) @@ a3

\* a new VehicleFault whose attributes a caller has set, or a sheet handed to
\* KardexProcessor.process under some configured transformations
KardexInit ==
    /\ ClassifierIdle /\ StoreIdle /\ RunnerIdle /\ LogIdle
    /\ outcome = [kind |-> "none", method |-> "none", value |-> FALSE]
    /\ \/ /\ \E work_order \in {[type |-> "NoneType", v |-> << >>],
                                [type |-> "str", v |-> <<"W", "0", "0", "1">>]},
                date \in {[type |-> "NoneType", v |-> << >>],
                          [type |-> "str", v |-> <<"2", "0", "2", "4", "-", "0", "1", "-", "0", "1", " ", "0", "9", ":", "0", "0", ":", "0", "0">>],
                          [type |-> "str", v |-> <<"2", "0", "2", "3", "-", "0", "1", "-", "0", "1">>],
                          [type |-> "str", v |-> <<"i", "n", "v", "a", "l", "i", "d", "-", "d", "a", "t", "e">>],
                          [type |-> "Timestamp", v |-> <<"2", "0", "2", "3", "-", "0", "1", "-", "0", "1", " ", "1", "0", ":", "3", "0", ":", "0", "0">>],
                          [type |-> "datetime", v |-> <<"2", "0", "2", "3", "-", "0", "1", "-", "0", "1", " ", "1", "0", ":", "3", "0", ":", "0", "0">>],
                          [type |-> "int", v |-> <<"2", "0", "2", "3", "0", "1", "0", "1">>]},
                description \in {[type |-> "NoneType", v |-> << >>],
                                 [type |-> "str", v |-> << >>],
                                 [type |-> "str", v |-> <<"T", "e", "s", "t", " ", "f", "a", "u", "l", "t">>],
                                 [type |-> "str", v |-> <<" ", " ", "E", "n", "g", "i", "n", "e", " ", " ", " ", "m", "a", "k", "i", "n", "g", " ", " ", "l", "o", "u", "d", " ", " ", "n", "o", "i", "s", "e", " ", " ", " ">>],
                                 [type |-> "str", v |-> <<"U", "r", "g", "e", "n", "t", " ", "b", "r", "a", "k", "e", " ", "f", "a", "i", "l", "u", "r", "e", " ", "n", "e", "e", "d", "s", " ", "i", "m", "m", "e", "d", "i", "a", "t", "e", " ", "a", "t", "t", "e", "n", "t", "i", "o", "n">>],
                                 [type |-> "str", v |-> <<"R", "o", "u", "t", "i", "n", "e", " ", "t", "i", "r", "e", " ", "i", "n", "s", "p", "e", "c", "t", "i", "o", "n", " ", "a", "n", "d", " ", "r", "o", "t", "a", "t", "i", "o", "n">>],
                                 [type |-> "str", v |-> <<"R", "o", "u", "t", "i", "n", "e", " ", "c", "l", "e", "a", "n">>]},
                cost \in {[type |-> "NoneType", v |-> << >>],
                          [type |-> "str", v |-> <<"1", "0", "0", ".", "5", "0">>],
                          [type |-> "str", v |-> <<"i", "n", "v", "a", "l", "i", "d">>]} :
                fault = [work_order |-> work_order, date |-> date,
                         description |-> description,
                         nature_of_complaint |-> [type |-> "NoneType", v |-> << >>],
                         cost |-> cost]
          /\ transformations = << >>
          /\ sheet = [name |-> << >>, columns |-> {}, rows |-> << >>]
       \/ /\ fault = << >>
          /\ transformations \in {<< >>, <<"format_dates">>, <<"clean_description">>,
                                  <<"clean_work_order", "format_dates",
                                    "clean_description", "classify_fault_category">>}
          /\ \E name \in {<<"L", "i", "f", "e", "s", "t", "y", "l", "e", " ", "(", "6", "y", "r", "s", ")">>, <<"1", "0", " ", "f", "t", " ", "(", "6", "y", "r", "s", ")">>},
                columns \in {{"WO No", "Open Date", "Nature of Complaint", "Job Description"},
                             {"WO No", "Open Date", "Nature of Complaint", "Job Description",
                              "Fault Codes"},
                             {"WO No", "Open Date", "Nature of Complaint", "Fault Codes"}},
                rows \in SeqsUpTo(
                    {[wo |-> <<"W", "0", "0", "1">>,
                      open_date |-> [type |-> "Timestamp", v |-> <<"2", "0", "2", "3", "-", "0", "1", "-", "0", "1", " ", "1", "0", ":", "3", "0", ":", "0", "0">>],
                      nature |-> <<"E", "n", "g", "i", "n", "e", " ", "n", "o", "i", "s", "e">>,
                      job |-> <<"U", "r", "g", "e", "n", "t", " ", "b", "r", "a", "k", "e", " ", "f", "a", "i", "l", "u", "r", "e", " ", "n", "e", "e", "d", "s", " ", "i", "m", "m", "e", "d", "i", "a", "t", "e", " ", "a", "t", "t", "e", "n", "t", "i", "o", "n">>,
                      fault_codes |-> <<"F", "0", "0", "1">>],
                     [wo |-> <<"W", "O", "-", "1", "2", "3", " ", "4">>,
                      open_date |-> [type |-> "str", v |-> <<"2", "0", "2", "3", "-", "0", "1", "-", "0", "1">>],
                      nature |-> <<"T", "i", "r", "e", " ", "w", "e", "a", "r">>,
                      job |-> <<"R", "o", "u", "t", "i", "n", "e", " ", "t", "i", "r", "e", " ", "i", "n", "s", "p", "e", "c", "t", "i", "o", "n", " ", "a", "n", "d", " ", "r", "o", "t", "a", "t", "i", "o", "n">>,
                      fault_codes |-> NaN],
                     [wo |-> <<"W", "0", "0", "3">>,
                      open_date |-> [type |-> "str", v |-> <<"i", "n", "v", "a", "l", "i", "d", "-", "d", "a", "t", "e">>],
                      nature |-> <<"B", "r", "a", "k", "e", " ", "n", "o", "i", "s", "e">>,
                      job |-> <<"B", "r", "a", "k", "e", " ", "s", "e", "r", "v", "i", "c", "e">>,
                      fault_codes |-> NaN]}, MaxRecords) :
                sheet = [name |-> name, columns |-> columns, rows |-> rows]

\* fault.validate()
CallValidate ==
    /\ outcome.kind = "none"
    /\ fault # << >>
    /\ LET r == Validate(fault)
       IN  /\ fault' = r.attributes
           /\ outcome' = [kind |-> r.kind, method |-> "validate", value |-> r.value]
    /\ UNCHANGED <<transformations, sheet>>
    /\ UNCHANGED <<test_execution, executed_tests, failed_tests, runner_pc, position,
                   attempt, started, run_result>>
    /\ UNCHANGED <<max_logs, logs, log_id, log_lock, thread_pc, logged, got>>
    /\ UNCHANGED storeVars
    /\ UNCHANGED classifierVars

\* processor._format_dates(fault)
CallFormatDates ==
    /\ outcome.kind = "none"
    /\ fault # << >>
    /\ LET r == FormatDates(fault)
       IN  /\ fault' = r.attributes
           /\ outcome' = [kind |-> r.kind, method |-> "_format_dates", value |-> FALSE]
    /\ UNCHANGED <<transformations, sheet>>
    /\ UNCHANGED <<test_execution, executed_tests, failed_tests, runner_pc, position,
                   attempt, started, run_result>>
    /\ UNCHANGED <<max_logs, logs, log_id, log_lock, thread_pc, logged, got>>
    /\ UNCHANGED storeVars
    /\ UNCHANGED classifierVars

\* processor._clean_description(fault); the description was set with
\* set_attribute before, as a str
CallCleanDescription ==
    /\ outcome.kind = "none"
    /\ fault # << >>
    /\ fault' = CleanDescription(fault)
    /\ outcome' = [kind |-> "returned", method |-> "_clean_description", value |-> FALSE]
    /\ UNCHANGED <<transformations, sheet>>
    /\ UNCHANGED <<test_execution, executed_tests, failed_tests, runner_pc, position,
                   attempt, started, run_result>>
    /\ UNCHANGED <<max_logs, logs, log_id, log_lock, thread_pc, logged, got>>
    /\ UNCHANGED storeVars
    /\ UNCHANGED classifierVars

\* processor.process(excel_file, sheet_name): the records of the rows whose
\* transformations and validation raise nothing, or the ValueError of a
\* sheet without a required column
CallProcess ==
    /\ outcome.kind = "none"
    /\ fault = << >>
    /\ LET none == [type |-> "NoneType", v |-> << >>]
           str(s) == [type |-> "str", v |-> s]
           \* _clean_work_order
           clean_work_order(attrs) ==
               LET a1 == attrs @@ ("work_order" :> none)
                   wo == IF a1["work_order"].type = "NoneType" THEN <<"N", "o", "n", "e">>
                         ELSE a1["work_order"].v
                   kept == SelectSeq(wo, LAMBDA c : c \notin {" ", "-", "/", ".", ",", "_",
                                                              "#", "(", ")", ":"})
               IN  ("work_order" :> str(kept)) @@ a1
           \* _classify_fault_category
           classify_fault_category(attrs) ==
               LET a1 == ((attrs @@ ("description" :> none)) @@ ("component" :> none))
                              @@ ("severity" :> none)
                   a2 == a1 @@ ("category" :> none)
                   lower == Lower(a1["description"].v)
                   category == a2["category"]
                   set(a, name) == ("fault_category" :> str(name)) @@ a
               IN  IF a1["description"].type # "str" THEN set(a1, <<"O", "t", "h", "e", "r">>)
                   ELSE IF Contains(lower, <<"s", "e", "r", "v", "i", "c", "e">>) THEN set(a1, <<"M", "a", "i", "n", "t", "e", "n", "a", "n", "c", "e">>)
                   ELSE IF category = str(<<"S", "E", "R", "V", "I", "C", "E">>) THEN set(a2, <<"M", "a", "i", "n", "t", "e", "n", "a", "n", "c", "e">>)
                   ELSE IF Contains(lower, <<"b", "r", "e", "a", "k", "d", "o", "w", "n">>) \/ category = str(<<"T", "Y", "R", "E", "B", "D">>)
                        THEN set(a2, <<"B", "r", "e", "a", "k", "d", "o", "w", "n">>)
                   ELSE IF Contains(lower, <<"i", "n", "s", "p", "e", "c", "t">>) \/ Contains(lower, <<"c", "h", "e", "c", "k">>)
                        THEN set(a2, <<"I", "n", "s", "p", "e", "c", "t", "i", "o", "n">>)
                   ELSE IF \/ Contains(lower, <<"r", "e", "p", "a", "i", "r">>) \/ Contains(lower, <<"r", "e", "p", "l", "a", "c", "e">>)
                           \/ category = str(<<"R", "E", "P", "A", "I", "R">>)
                        THEN set(a2, <<"R", "e", "p", "a", "i", "r">>)
                   ELSE set(a2, <<"O", "t", "h", "e", "r">>)
           \* _apply_transformations from the i-th one on: [attributes, kind]
           RECURSIVE Apply(_, _)
           Apply(attrs, i) ==
               IF i > Len(transformations) THEN [attributes |-> attrs, kind |-> "returned"]
               ELSE IF transformations[i] = "clean_work_order"
                    THEN Apply(clean_work_order(attrs), i + 1)
               ELSE IF transformations[i] = "format_dates"
                    THEN IF FormatDates(attrs).kind = "raised"
                         THEN [attributes |-> attrs, kind |-> "raised"]
                         ELSE Apply(FormatDates(attrs).attributes, i + 1)
               ELSE IF transformations[i] = "clean_description"
                    THEN Apply(CleanDescription(attrs), i + 1)
               ELSE IF transformations[i] = "classify_fault_category"
                    THEN Apply(classify_fault_category(attrs), i + 1)
               ELSE Apply(attrs, i + 1)
           \* the attributes set from one row
           mapped(row) ==
               LET required == [work_order |-> str(row.wo), date |-> row.open_date,
                                description |-> str(row.job),
                                nature_of_complaint |-> str(row.nature),
                                vehicle_type |-> str(sheet.name)]
               IN  IF "Fault Codes" \in sheet.columns /\ row.fault_codes # NaN
                   THEN ("fault_codes" :> str(row.fault_codes)) @@ required
                   ELSE required
           \* the loop over df.iterrows() from row i on
           RECURSIVE Results(_)
           Results(i) ==
               IF i > Len(sheet.rows) THEN << >>
               ELSE LET transformed == Apply(mapped(sheet.rows[i]), 1)
                        validated == Validate(transformed.attributes)
                    IN  IF transformed.kind = "raised" \/ validated.kind = "raised"
                        THEN Results(i + 1)
                        ELSE <<validated.attributes>> \o Results(i + 1)
           required_columns == {"WO No", "Open Date", "Nature of Complaint",
                                "Job Description"}
       IN  outcome' = IF sheet.rows = << >>
                        THEN [kind |-> "returned", method |-> "process", value |-> << >>]
                      ELSE IF ~(required_columns \subseteq sheet.columns)
                        THEN [kind |-> "raised", method |-> "process", value |-> << >>]
                      ELSE [kind |-> "returned", method |-> "process", value |-> Results(1)]
    /\ UNCHANGED <<fault, transformations, sheet>>
    /\ UNCHANGED <<test_execution, executed_tests, failed_tests, runner_pc, position,
                   attempt, started, run_result>>
    /\ UNCHANGED <<max_logs, logs, log_id, log_lock, thread_pc, logged, got>>
    /\ UNCHANGED storeVars
    /\ UNCHANGED classifierVars

KardexSpec ==
    KardexInit /\ [][CallValidate \/ CallFormatDates \/ CallCleanDescription
                     \/ CallProcess]_vars

(***************************************************************************)
(* Claims about the VehicleFault entity and KardexProcessor.               *)
(***************************************************************************)

\* C21: validate() signals every validation failure by returning False and
\* never raises: it returns False while work_order, date or description is
\* unset, and returns False when the date is a string that is not of the
\* form 'YYYY-MM-DD HH:MM:SS' (no such string has another length than 19).
C21_ValidateReturnsFalse ==
    outcome.method = "validate" =>
        /\ outcome.kind = "returned"
        /\ (\E a \in {"work_order", "date", "description"} : fault[a].type = "NoneType")
               => outcome.value = FALSE
        /\ (fault["date"].type = "str" /\ Len(fault["date"].v) # 19)
               => outcome.value = FALSE

\* C22: _format_dates rewrites a Timestamp or datetime date to the string
\* 'YYYY-MM-DD HH:MM:SS' of its moment and raises ValueError('Invalid date
\* format') for a date of any other type, a plain string included.
C22_FormatDatesRejectsStrings ==
    [][CallFormatDates =>
         /\ fault["date"].type \in {"Timestamp", "datetime"}
                => /\ outcome'.kind = "returned"
                   /\ fault'["date"] = [type |-> "str", v |-> fault["date"].v]
         /\ fault["date"].type \notin {"Timestamp", "datetime"}
                => outcome'.kind = "raised"]_vars

\* C23: _clean_description sets severity 'high' when the description holds a
\* high indicator, and 'low' when it holds a low indicator and no high one,
\* whatever medium indicators it also holds.
C23_SeverityLevels ==
    LET holds(level) ==
            \E k \in 1..Len(SeverityIndicators(level)) :
                Contains(Lower(fault["description"].v), SeverityIndicators(level)[k])
    IN  (outcome.method = "_clean_description" /\ fault["description"].type = "str"
            /\ fault["description"].v # << >>) =>
            /\ holds("high") => fault["severity"].v = <<"h", "i", "g", "h">>
            /\ (holds("low") /\ ~holds("high")) => fault["severity"].v = <<"l", "o", "w">>

\* C24: every record returned by process has the keys work_order,
\* fault_codes, nature_of_complaint, job_description and vehicle_type, and
\* its vehicle_type is the name of the processed sheet.
C24_RecordKeys ==
    (outcome.method = "process" /\ outcome.kind = "returned") =>
        \A i \in 1..Len(outcome.value) :
            /\ {"work_order", "fault_codes", "nature_of_complaint", "job_description",
                "vehicle_type"} \subseteq DOMAIN outcome.value[i]
            /\ outcome.value[i]["vehicle_type"] = [type |-> "str", v |-> sheet.name]

(***************************************************************************)
(* Claims about the locals of _categorize_faults at its return.            *)
(***************************************************************************)

\* C25 as stated: the match_density the confidence is computed from is that
\* of the category the loop iterated last.
C25_Original ==
    (Returned /\ NonEmptyText /\ WellFormed /\ result.main # Uncategorized) =>
        match_density = DensityOf(Len(Cats))

\* C25: the match_density the confidence is computed from is the winning
\* category's own, whichever category the loop iterated last: the returned
\* confidence is min(highest_score/4 + 0.5 * the winner's density, 1.0).
C25_WinnerDensity ==
    (Returned /\ NonEmptyText /\ WellFormed) =>
        \A c \in 1..Len(Cats) :
            result.main = CatNames[c] =>
                /\ match_density = DensityOf(c)
                /\ result.confidence = Confidence(highest_score, DensityOf(c))

C25_Witness ==
    /\ Returned /\ NonEmptyText /\ WellFormed
    /\ Len(Cats) = 2
    /\ result.main = CatNames[1]
    /\ RatLess(Zero, DensityOf(2))
    /\ DensityOf(1) # DensityOf(2)
    /\ RatLess(result.confidence, One)
    /\ result.confidence # Confidence(highest_score, DensityOf(2))

RECURSIVE ExtractFaultTypeMainFirst(_, _, _)
ExtractFaultTypeMainFirst(cats, q, i) ==
    LET main(c) == KeywordHits(cats[c].keywords, Lower(q)) > 0
        sub(c, j) == KeywordHits(cats[c].subcategories[j], Lower(q)) > 0
        hit(c) == \E j \in 1..Len(cats[c].subcategories) : sub(c, j)
    IN  IF \E c \in i..Len(cats) : main(c)
          THEN [category |-> CatNames[CHOOSE c \in i..Len(cats) :
                                 main(c) /\ \A d \in i..(c - 1) : ~main(d)],
                subcategory |-> NoSub]
        ELSE IF \E c \in i..Len(cats) : hit(c)
          THEN LET c == CHOOSE c \in i..Len(cats) : hit(c) /\ \A d \in i..(c - 1) : ~hit(d)
               IN [category |-> CatNames[c],
                   subcategory |-> SubNames[CHOOSE j \in 1..Len(cats[c].subcategories) :
                                       sub(c, j) /\ \A k \in 1..(j - 1) : ~sub(c, k)]]
        ELSE [category |-> NoSub, subcategory |-> NoSub]

\* the for loop over self.fault_categories['fault_categories'].items(), from
\* category i on: the category's own keywords, then its subcategories in
\* load order, then the next category
RECURSIVE ExtractFaultType(_, _, _)
ExtractFaultType(cats, q, i) ==
    IF i > Len(cats) THEN [category |-> NoSub, subcategory |-> NoSub]
    ELSE LET data_ == cats[i]
             matching == {j \in 1..Len(data_.subcategories) :
                            KeywordHits(data_.subcategories[j], Lower(q)) > 0}
         IN  IF KeywordHits(data_.keywords, Lower(q)) > 0
               THEN [category |-> CatNames[i], subcategory |-> NoSub]
             ELSE IF matching # {}
               THEN [category |-> CatNames[i],
                     subcategory |-> SubNames[CHOOSE j \in matching :
                                         \A k \in matching : j <= k]]
             ELSE ExtractFaultType(cats, q, i + 1)

\* a fault_categories.yaml, loaded or not, and a query for the processor built
\* from it
ExtractInit ==
    /\ cfg \in {c \in ConfigFiles : LoadFails(c)}
                \cup {[kind |-> "loaded", content |-> [schema |-> TRUE, cats |-> t]] :
                        t \in Taxonomies}
    /\ data = << >>
    /\ vf = NoObject
    /\ qpp = NoObject
    /\ report = NoReport
    /\ previous = NoReport
    /\ open_date = NoDates
    /\ session = "idle"
    /\ query \in Texts \ {<< >>}
    /\ fallback = "idle"
    /\ chat_pc = "idle"
    /\ attempts = 0
    /\ response = [kind |-> "none", category |-> NoSub, subcategory |-> NoSub]
    /\ ClassifierIdle
    /\ KardexIdle /\ RunnerIdle /\ LogIdle

\* preprocessor._extract_fault_type(query)
CallExtractFaultType ==
    /\ qpp.state = "built"
    /\ response.kind = "none"
    /\ LET r == ExtractFaultType(qpp.fault_categories.cats, query, 1)
       IN  response' = [kind |-> "fault_type", category |-> r.category,
                        subcategory |-> r.subcategory]
    /\ UNCHANGED <<session, query, fallback, chat_pc, attempts>>
    /\ UNCHANGED <<cfg, data, vf, qpp, report, previous, open_date>>
    /\ UNCHANGED classifierVars
    /\ UNCHANGED toolVars

ExtractSpec == ExtractInit /\ [][ConstructQueryPreProcessor \/ CallExtractFaultType]_vars

(***************************************************************************)
(* Claims about _extract_fault_type.                                       *)
(***************************************************************************)
MainKeywordOccurs(c) ==
    KeywordHits(qpp.fault_categories.cats[c].keywords, Lower(query)) > 0
SubKeywordOccurs(c, j) ==
    KeywordHits(qpp.fault_categories.cats[c].subcategories[j], Lower(query)) > 0
AnyKeywordOccurs(c) ==
    \/ MainKeywordOccurs(c)
    \/ \E j \in 1..Len(qpp.fault_categories.cats[c].subcategories) : SubKeywordOccurs(c, j)

\* C27 as stated: whenever a main keyword of any category occurs in the
\* query the result is a main category name alone; 'category - subcategory'
\* is returned only when no main keyword of any category occurs; None when
\* no keyword occurs.
C27_Original ==
    response.kind = "fault_type" =>
        LET n == Len(qpp.fault_categories.cats)
        IN  /\ (\E c \in 1..n : MainKeywordOccurs(c)) =>
                  /\ response.subcategory = NoSub
                  /\ \E c \in 1..n : MainKeywordOccurs(c) /\ response.category = CatNames[c]
            /\ response.subcategory # NoSub => \A c \in 1..n : ~MainKeywordOccurs(c)
            /\ (\A c \in 1..n : ~AnyKeywordOccurs(c)) => response.category = NoSub

\* C27: the result is decided by the first category, in load order, any of
\* whose keywords (its own or a subcategory's) occurs in the query: the
\* category name alone when one of its own keywords occurs, else the name
\* with its first subcategory whose keyword occurs; None when no keyword of
\* any category occurs.
C27_FirstCategoryDecides ==
    response.kind = "fault_type" =>
        LET cats == qpp.fault_categories.cats
        IN  /\ (\A c \in 1..Len(cats) : ~AnyKeywordOccurs(c)) <=> response.category = NoSub
            /\ \A c \in 1..Len(cats) :
                  (AnyKeywordOccurs(c) /\ \A d \in 1..(c - 1) : ~AnyKeywordOccurs(d)) =>
                      /\ response.category = CatNames[c]
                      /\ MainKeywordOccurs(c) => response.subcategory = NoSub
                      /\ ~MainKeywordOccurs(c) =>
                            \E j \in 1..Len(cats[c].subcategories) :
                                /\ response.subcategory = SubNames[j]
                                /\ SubKeywordOccurs(c, j)
                                /\ \A k \in 1..(j - 1) : ~SubKeywordOccurs(c, k)

C27_Witness ==
    /\ response.kind = "fault_type"
    /\ Len(qpp.fault_categories.cats) = 2
    /\ ~MainKeywordOccurs(1)
    /\ MainKeywordOccurs(2)
    /\ response.category = CatNames[1]
    /\ response.subcategory # NoSub

(***************************************************************************)
(* TestRunner.run_tests over the test_execution section of the test        *)
(* configuration: sequence, dependencies (test -> its 'requires'),         *)
(* settings, and the tests that have a file under test_files.              *)
(***************************************************************************)

\* TestConfig.validate_test_dependencies: deps is the set get_all_dependencies
\* returns, the tests reachable from test, test itself included
ValidateTestDependencies(te) ==
    LET RECURSIVE get_all_dependencies(_)
        get_all_dependencies(visited) ==
            LET more == visited \cup UNION {te.dependencies[t] : t \in visited}
            IN  IF more = visited THEN visited ELSE get_all_dependencies(more)
    IN  \A i \in 1..Len(te.sequence) :
            LET test == te.sequence[i]
                deps == get_all_dependencies({test})
            IN  ~(test \in deps \ {test})

\* a TestRunner over some configuration, before run_tests
RunnerInit ==
    /\ ClassifierIdle /\ StoreIdle /\ KardexIdle /\ LogIdle
    /\ \E sequence \in SeqsUpTo({"a", "b"}, MaxTests),
          dependencies \in [{"a", "b"} -> SUBSET {"a", "b"}],
          stop_on_failure \in BOOLEAN,
          retry_count \in 0..MaxRetries,
          test_files \in {{"a", "b"}, {"a"}} :
          test_execution = [sequence |-> sequence, dependencies |-> dependencies,
                            settings |-> [stop_on_failure |-> stop_on_failure,
                                          retry_count |-> retry_count],
                            test_files |-> test_files]
    /\ executed_tests = {}
    /\ failed_tests = {}
    /\ runner_pc = "start"
    /\ position = 0
    /\ attempt = 0
    /\ started = << >>
    /\ run_result = [kind |-> "none", validated |-> FALSE, value |-> FALSE]

\* run_tests up to the for loop: lines 111-120
RunTests ==
    /\ runner_pc = "start"
    /\ LET validated == ValidateTestDependencies(test_execution)
       IN  IF ~validated \/ test_execution.sequence = << >>
           THEN /\ runner_pc' = "done"
                /\ run_result' = [kind |-> "returned", validated |-> validated,
                                  value |-> FALSE]
                /\ UNCHANGED position
           ELSE /\ runner_pc' = "loop"
                /\ run_result' = [kind |-> "running", validated |-> validated,
                                  value |-> FALSE]
                /\ position' = 1
    /\ UNCHANGED <<test_execution, executed_tests, failed_tests, attempt, started>>
    /\ UNCHANGED <<fault, transformations, sheet, outcome>>
    /\ UNCHANGED <<max_logs, logs, log_id, log_lock, thread_pc, logged, got>>
    /\ UNCHANGED storeVars
    /\ UNCHANGED classifierVars

\* the head of the for loop: the next test of the sequence is skipped, ends
\* the run, fails for want of a test file, or enters _run_single_test; after
\* the last test the summary is returned
RunnerNextTest ==
    /\ runner_pc = "loop"
    /\ LET sequence == test_execution.sequence
           test_name == sequence[position]
           \* _can_run_test
           can_run == test_execution.dependencies[test_name]
                          \subseteq (executed_tests \ failed_tests)
           stop == test_execution.settings.stop_on_failure
       IN  IF position > Len(sequence)
             THEN /\ runner_pc' = "done"
                  /\ run_result' = [run_result EXCEPT !.kind = "returned",
                                                      !.value = (failed_tests = {})]
                  /\ UNCHANGED <<executed_tests, failed_tests, position>>
           ELSE IF ~can_run
             THEN /\ IF stop
                     THEN /\ runner_pc' = "done"
                          /\ run_result' = [run_result EXCEPT !.kind = "returned",
                                                              !.value = FALSE]
                          /\ UNCHANGED position
                     ELSE /\ position' = position + 1
                          /\ UNCHANGED <<runner_pc, run_result>>
                  /\ UNCHANGED <<executed_tests, failed_tests>>
           ELSE IF test_name \notin test_execution.test_files
             THEN /\ executed_tests' = executed_tests \cup {test_name}
                  /\ failed_tests' = failed_tests \cup {test_name}
                  /\ IF stop
                     THEN /\ runner_pc' = "done"
                          /\ run_result' = [run_result EXCEPT !.kind = "returned",
                                                              !.value = FALSE]
                          /\ UNCHANGED position
                     ELSE /\ position' = position + 1
                          /\ UNCHANGED <<runner_pc, run_result>>
           ELSE /\ runner_pc' = "running"
                /\ UNCHANGED <<executed_tests, failed_tests, position, run_result>>
    /\ attempt' = 0
    /\ UNCHANGED <<test_execution, started>>
    /\ UNCHANGED <<fault, transformations, sheet, outcome>>
    /\ UNCHANGED <<max_logs, logs, log_id, log_lock, thread_pc, logged, got>>
    /\ UNCHANGED storeVars
    /\ UNCHANGED classifierVars

\* one pass of the retry loop of _run_single_test: pytest passes, fails,
\* fails after the timeout, or raises; and what run_tests does once
\* _run_single_test has returned
RunAttempt ==
    /\ runner_pc = "running"
    /\ \E exit \in {"ok", "failed", "timed_out", "error"} :
          LET test_name == test_execution.sequence[position]
              stop == test_execution.settings.stop_on_failure
              last == attempt + 1 >= test_execution.settings.retry_count + 1
          IN  /\ started' = Append(started,
                                   [position |-> position, test |-> test_name,
                                    attempt |-> attempt,
                                    passed |-> executed_tests \ failed_tests])
              /\ IF exit = "ok"
                   THEN /\ executed_tests' = executed_tests \cup {test_name}
                        /\ position' = position + 1
                        /\ runner_pc' = "loop"
                        /\ attempt' = 0
                        /\ UNCHANGED <<failed_tests, run_result>>
                 ELSE IF exit # "timed_out" /\ ~last
                   THEN /\ attempt' = attempt + 1
                        /\ UNCHANGED <<executed_tests, failed_tests, position,
                                       runner_pc, run_result>>
                 ELSE /\ executed_tests' = executed_tests \cup {test_name}
                      /\ failed_tests' = failed_tests \cup {test_name}
                      /\ attempt' = 0
                      /\ IF stop
                         THEN /\ runner_pc' = "done"
                              /\ run_result' = [run_result EXCEPT !.kind = "returned",
                                                                  !.value = FALSE]
                              /\ UNCHANGED position
                         ELSE /\ runner_pc' = "loop"
                              /\ position' = position + 1
                              /\ UNCHANGED run_result
    /\ UNCHANGED test_execution
    /\ UNCHANGED <<fault, transformations, sheet, outcome>>
    /\ UNCHANGED <<max_logs, logs, log_id, log_lock, thread_pc, logged, got>>
    /\ UNCHANGED storeVars
    /\ UNCHANGED classifierVars

RunnerSpec == RunnerInit /\ [][RunTests \/ RunnerNextTest \/ RunAttempt]_vars

(***************************************************************************)
(* Claims about the test runner.                                           *)
(***************************************************************************)
\* the tests reachable from the tests of S through 'requires'
RECURSIVE RequiredBy(_)
RequiredBy(S) ==
    LET more == S \cup UNION {test_execution.dependencies[t] : t \in S}
    IN  IF more = S THEN S ELSE RequiredBy(more)

\* a test reachable from the sequence requires itself, directly or not
CycleReachable ==
    \E i \in 1..Len(test_execution.sequence) :
        \E u \in RequiredBy({test_execution.sequence[i]}) :
            u \in RequiredBy(test_execution.dependencies[u])

\* C28: validate_test_dependencies returns False whenever the dependencies
\* contain a cycle reachable from a test of the sequence and True when they
\* form a DAG; so run_tests starts no test and executes none when the
\* dependencies are cyclic.
C28_CyclesRejected ==
    run_result.kind # "none" =>
        /\ run_result.validated = ~CycleReachable
        /\ CycleReachable => (started = << >> /\ executed_tests = {})

\* C29: run_tests starts a test only after each of its declared dependencies
\* has been executed and has passed, makes at most retry_count + 1 attempts
\* on a test of the sequence, and returns True only if every test of the
\* sequence was executed and passed.
C29_RunnerContract ==
    /\ \A k \in 1..Len(started) :
          /\ test_execution.dependencies[started[k].test] \subseteq started[k].passed
          /\ started[k].attempt + 1 <= test_execution.settings.retry_count + 1
    /\ \A p \in 1..Len(test_execution.sequence) :
          Cardinality({k \in 1..Len(started) : started[k].position = p})
              <= test_execution.settings.retry_count + 1
    /\ (run_result.kind = "returned" /\ run_result.value) =>
          \A p \in 1..Len(test_execution.sequence) :
              test_execution.sequence[p] \in executed_tests \ failed_tests

(***************************************************************************)
(* LogManager: log() and get_logs() called by several threads.  An entry   *)
(* is [id, message]; the message stands for the caller and its text.       *)
(***************************************************************************)

\* mutant: the body of log() runs without the lock
LockIgnored == TRUE

\* "with self.log_lock:" can be entered
LockFree == log_lock = 0

\* LogManager(max_logs): the constructor ends with _log_git_info, which logs
\* the startup message (message 0) as entry 0
LogInit ==
    /\ ClassifierIdle /\ StoreIdle /\ KardexIdle /\ RunnerIdle
    /\ max_logs \in 1..2
    /\ logs = <<[id |-> 0, message |-> 0]>>
    /\ log_id = 1
    /\ log_lock = 0
    /\ thread_pc = [t \in 1..MaxThreads |-> "idle"]
    /\ logged = <<[id |-> 0, message |-> 0]>>
    /\ got = [kind |-> "none", after_id |-> 0, buffer |-> << >>, value |-> << >>]

\* log(message), line 100: thread t takes the lock
LogAcquire(t) ==
    /\ thread_pc[t] = "idle"
    /\ log_id < MaxLogCalls
    /\ LockFree
    /\ log_lock' = t
    /\ thread_pc' = [thread_pc EXCEPT ![t] = "locked"]
    /\ UNCHANGED <<max_logs, logs, log_id, logged, got>>
    /\ UNCHANGED <<fault, transformations, sheet, outcome>>
    /\ UNCHANGED <<test_execution, executed_tests, failed_tests, runner_pc, position,
                   attempt, started, run_result>>
    /\ UNCHANGED storeVars
    /\ UNCHANGED classifierVars

\* lines 101-108: the entry takes the current log_id and is appended, and the
\* oldest entry is dropped when the buffer is over max_logs
LogAppend(t) ==
    /\ thread_pc[t] = "locked"
    /\ LET log_entry == [id |-> log_id, message |-> t]
           appended == Append(logs, log_entry)
       IN  /\ logs' = IF Len(appended) > max_logs THEN Tail(appended) ELSE appended
           /\ logged' = Append(logged, log_entry)
    /\ thread_pc' = [thread_pc EXCEPT ![t] = "appended"]
    /\ UNCHANGED <<max_logs, log_id, log_lock, got>>
    /\ UNCHANGED <<fault, transformations, sheet, outcome>>
    /\ UNCHANGED <<test_execution, executed_tests, failed_tests, runner_pc, position,
                   attempt, started, run_result>>
    /\ UNCHANGED storeVars
    /\ UNCHANGED classifierVars

\* lines 109-111: log_id += 1, the entry is printed and written to the file,
\* and the lock is released
LogRelease(t) ==
    /\ thread_pc[t] = "appended"
    /\ log_id' = log_id + 1
    /\ log_lock' = 0
    /\ thread_pc' = [thread_pc EXCEPT ![t] = "idle"]
    /\ UNCHANGED <<max_logs, logs, logged, got>>
    /\ UNCHANGED <<fault, transformations, sheet, outcome>>
    /\ UNCHANGED <<test_execution, executed_tests, failed_tests, runner_pc, position,
                   attempt, started, run_result>>
    /\ UNCHANGED storeVars
    /\ UNCHANGED classifierVars

\* get_logs(after_id) by a thread that is not inside log(): the whole body
\* runs under the lock
GetLogs(t) ==
    /\ thread_pc[t] = "idle"
    /\ LockFree
    /\ \E after_id \in -1..MaxLogCalls :
          got' = [kind |-> "returned", after_id |-> after_id, buffer |-> logs,
                  value |-> IF after_id = -1
                            THEN SubSeq(logs, Max(1, Len(logs) - 99), Len(logs))
                            ELSE SelectSeq(logs, LAMBDA log : log.id > after_id)]
    /\ UNCHANGED <<max_logs, logs, log_id, log_lock, thread_pc, logged>>
    /\ UNCHANGED <<fault, transformations, sheet, outcome>>
    /\ UNCHANGED <<test_execution, executed_tests, failed_tests, runner_pc, position,
                   attempt, started, run_result>>
    /\ UNCHANGED storeVars
    /\ UNCHANGED classifierVars

LogSpec ==
    LogInit /\ [][\E t \in 1..MaxThreads :
                     LogAcquire(t) \/ LogAppend(t) \/ LogRelease(t) \/ GetLogs(t)]_vars

(***************************************************************************)
(* Claims about the log buffer.                                            *)
(***************************************************************************)

\* C30: whatever the interleaving of the threads' log() calls, the buffer
\* holds at most max_logs entries, they are the most recently logged ones in
\* the order they were logged, their ids are distinct and strictly increasing
\* in buffer order, and get_logs(after_id) with after_id >= 0 returns exactly
\* the entries of the buffer whose id is greater than after_id, in buffer order.
C30_BufferConsistent ==
    /\ Len(logs) <= max_logs
    /\ logs = SubSeq(logged, Len(logged) - Min(max_logs, Len(logged)) + 1, Len(logged))
    /\ \A i, j \in 1..Len(logs) : i < j => logs[i].id < logs[j].id
    /\ \A i, j \in 1..Len(logged) : i < j => logged[i].id < logged[j].id
    /\ (got.kind = "returned" /\ got.after_id >= 0) =>
          /\ \A i \in 1..Len(got.value) : got.value[i].id > got.after_id
          /\ \A i \in 1..Len(got.buffer) :
                got.buffer[i].id > got.after_id =>
                    \E k \in 1..Len(got.value) : got.value[k] = got.buffer[i]
          /\ \A i, j \in 1..Len(got.value) : i < j => got.value[i].id < got.value[j].id
          /\ \A i \in 1..Len(got.value) :
                \E k \in 1..Len(got.buffer) : got.buffer[k] = got.value[i]

C30_Witness ==
    /\ Len(logged) > max_logs
    /\ Len(logs) = max_logs
    /\ \A t \in 1..MaxThreads : \E i \in 1..Len(logged) : logged[i].message = t
    /\ \A t \in 1..MaxThreads : thread_pc[t] = "idle"
    /\ got.kind = "returned" /\ got.after_id >= 0
    /\ got.buffer = logs
    /\ got.value # << >>
    /\ Len(got.value) < Len(got.buffer)
====
